---- MODULE Spec2Model ----
(***************************************************************************)
(* A model of the postal-code temperature services:                        *)
(*   - the Gateway   (service-a, ServiceA.handleCEPRequest / callServiceB) *)
(*   - the Resolver  (service-b, ServiceB.handleWeatherRequest)            *)
(*   - the standalone single-binary service (main.go, handleWeatherRequest)*)
(* A handler is cut into one action per stretch of code between two        *)
(* blocking outbound calls; the outcome of an outbound call is an input    *)
(* of the action that resumes the handler.                                 *)
(*                                                                         *)
(* Representation.  A Go string that the code only compares or copies is a *)
(* TLA+ string; a postal code, which the code matches against a regular    *)
(* expression, is a sequence of one-character strings.  A temperature      *)
(* (float64) is an integer number of hundredths of a degree.  A JSON       *)
(* object is a function from its keys to typed values [t, v].  A Go error  *)
(* is [nil, text].                                                         *)
(***************************************************************************)
EXTENDS Integers, Sequences, FiniteSets, TLC

VARIABLES
    target,     \* the deployment the client talks to: "A" (Gateway chained to
                \* the Resolver), "B" (the Resolver alone), "S" (standalone)
    conf,       \* the configuration read at startup
    pcA, reqA, wA, outAB, inAB,
                \* Gateway: position, request, ResponseWriter, the request sent
                \* to the Resolver, the outcome of that call
    pcB, reqB, wB, geoB, locB, weatherB,
                \* Resolver: position, request, ResponseWriter, geocoding
                \* outcome, decoded location, weather outcome
    pcS, reqS, wS, geoS, locS, weatherS,
                \* standalone service: the same
    calls,      \* outbound calls issued, per callee
    zipcode, matched,
                \* the validator's input and verdicts (SpecZip)
    env,        \* the postal code asked for and the upstream responses, when
                \* they are the same for every request (SpecTwice)
    first,      \* the response to the request handled before the present one
    slots,      \* the requests one process handles at the same time, each
                \* with its handler's position and locals (SpecConc)
    obsA, obsB, \* Gateway, Resolver: what the handler has done that can be
                \* observed, in order: spans started and ended, span events,
                \* log calls, outbound calls and their returns, the response
    proc        \* the Gateway's or the Resolver's process from the start of
                \* main to its exit, with the tracer provider's span buffer
                \* (SpecMain)

varsA == <<pcA, reqA, wA, outAB, inAB, obsA>>
varsB == <<pcB, reqB, wB, geoB, locB, weatherB, obsB>>
varsS == <<pcS, reqS, wS, geoS, locS, weatherS>>
varsZ == <<zipcode, matched, env, first, slots, proc>>
vars == <<target, conf, varsA, varsB, varsS, calls, varsZ>>

----------------------------------------------------------------------------
(* Bounds and program constants *)

\* the most requests one process handles at the same time
MaxInFlight == 2

\* the longest postal-code string the validator is tried on
MaxZipLen == 9

\* the repetition count of the pattern ^\d{8}$
ZipcodeDigits == 8

\* 273.15, in hundredths of a degree
KelvinOffset == 27315

\* the mock sample of the standalone service: 25.0 and 77.0
MockTempC == 2500
MockTempF == 7700

StatusOK == 200
StatusBadRequest == 400
StatusNotFound == 404
StatusMethodNotAllowed == 405
StatusUnprocessableEntity == 422
StatusInternalServerError == 500

----------------------------------------------------------------------------
(* Strings and the regular expression *)

\* the characters \d matches (Go's regexp: ASCII digits only)
Digits == {"0", "1", "2", "3", "4", "5", "6", "7", "8", "9"}

\* the characters postal-code inputs are built from: digits, a letter, a
\* dash, a blank, a newline and a non-ASCII decimal digit (ARABIC-INDIC 3)
Chars == {"0", "5", "9", "a", "-", " ", "\n", "U+0663"}

\* the position after n characters of class \d matched from position i on,
\* or 0 when fewer than n follow
RECURSIVE MatchDigits(_, _, _)
MatchDigits(s, i, n) ==
    IF n = 0 THEN i
    ELSE IF i <= Len(s) /\ s[i] \in Digits THEN MatchDigits(s, i + 1, n - 1)
    ELSE 0

\* $ matching before a final newline too
MatchStringPerlDollar(s) ==
    LET e == MatchDigits(s, 1, ZipcodeDigits)
    IN  /\ e # 0
        /\ \/ e = Len(s) + 1
           \/ e = Len(s) /\ s[e] = "\n"

\* regexp.MatchString(`^\d{8}$`, s): ^ is the start of the text, $ its end
\* (no multi-line flag: $ does not match before a final newline)
MatchString(s) ==
    LET e == MatchDigits(s, 1, ZipcodeDigits)
    IN  e # 0 /\ e = Len(s) + 1

\* a validator that lets a final newline through
ServiceA_isValidZipcodeLoose(s) == MatchStringPerlDollar(s)

ServiceA_isValidZipcode(s) == MatchString(s)
ServiceB_isValidZipcode(s) == MatchString(s)
isValidZipcode(s) == MatchString(s)

\* s with the character at position p replaced by c
Replace(s, p, c) == [i \in 1..Len(s) |-> IF i = p THEN c ELSE s[i]]

\* the validator's inputs: every length up to MaxZipLen, all digits or with
\* one position holding any character of Chars
ZipInputs ==
    UNION { LET base == [i \in 1..n |-> d]
            IN  {base} \cup {Replace(base, p, c) : p \in 1..n, c \in Chars}
          : n \in 0..MaxZipLen, d \in {"1", "7"} }

----------------------------------------------------------------------------
(* Values on the wire *)

\* a typed JSON value
JStr(s) == [t |-> "string", v |-> s]
JNum(n) == [t |-> "number", v |-> n]
JBool(b) == [t |-> "bool", v |-> b]

\* a body: a JSON object, or bytes that are no JSON value
JSONBody(o) == [kind |-> "json", obj |-> o]
TextBody(s) == [kind |-> "text", text |-> s]

\* encoding/json decoding one struct field: a key that is absent leaves the
\* field at its zero value, a value of another JSON type is an error
FieldOK(o, key, type) == key \notin DOMAIN o \/ o[key].t = type
Field(o, key, zero) == IF key \in DOMAIN o THEN o[key].v ELSE zero

\* string(body), as it is put into an error text
BodyText(b) == IF b.kind = "text" THEN b.text ELSE "{...}"

\* Go errors
NoError == [nil |-> TRUE, text |-> ""]
Errorf(text) == [nil |-> FALSE, text |-> text]

\* the texts of the transport errors of http.Client.Do (refused connection,
\* client timeout, cancelled request context)
TransportErrors ==
    {"connection refused", "context deadline exceeded", "context canceled"}

NoOutcome == [kind |-> "none"]
TransportFailure(e) == [kind |-> "error", err |-> e]
Response(status, body) == [kind |-> "response", status |-> status, body |-> body]
\* a response whose body cannot be read to its end
BrokenResponse(status) == [kind |-> "unreadable", status |-> status]

----------------------------------------------------------------------------
(* http.ResponseWriter *)

NewResponseWriter == [code |-> 0, body |-> <<>>, headerCalls |-> 0]

\* the first WriteHeader sets the status, a later one is ignored
WriteHeader(w, statusCode) ==
    [w EXCEPT !.code = IF @ = 0 THEN statusCode ELSE @,
              !.headerCalls = @ + 1]

\* a Write before any WriteHeader sends status 200
Write(w, chunk) ==
    [w EXCEPT !.code = IF @ = 0 THEN StatusOK ELSE @,
              !.body = Append(@, chunk)]

\* the response as its reader sees it: the status and the bytes written
\* (two chunks in a row are no single JSON value)
WireResponse(w) ==
    Response(w.code,
             IF Len(w.body) = 1 THEN w.body[1]
             ELSE TextBody(IF Len(w.body) = 0 THEN "" ELSE "<chunks>"))

\* shared.ErrorResponse{Message} and its encoding
MarshalErrorResponse(message) == JSONBody([message |-> JStr(message)])

\* the message written as plain text (as http.Error writes it)
ServiceA_sendErrorResponsePlain(w, message, statusCode) ==
    Write(WriteHeader(w, statusCode), TextBody(message))

ServiceA_sendErrorResponse(w, message, statusCode) ==
    Write(WriteHeader(w, statusCode), MarshalErrorResponse(message))
ServiceB_sendErrorResponse(w, message, statusCode) ==
    Write(WriteHeader(w, statusCode), MarshalErrorResponse(message))
sendErrorResponse(w, message, statusCode) ==
    Write(WriteHeader(w, statusCode), MarshalErrorResponse(message))

\* a health check that answers GET only
healthCheckMethodChecked(w, r) ==
    IF r.method = "GET"
    THEN Write(WriteHeader(w, StatusOK), TextBody("OK"))
    ELSE Write(WriteHeader(w, StatusMethodNotAllowed), TextBody("method not allowed"))
\* w.WriteHeader(http.StatusOK); w.Write([]byte("OK"))
ServiceA_healthCheck(w, r) == Write(WriteHeader(w, StatusOK), TextBody("OK"))
ServiceB_healthCheck(w, r) == Write(WriteHeader(w, StatusOK), TextBody("OK"))
healthCheck(w, r) == Write(WriteHeader(w, StatusOK), TextBody("OK"))

----------------------------------------------------------------------------
(* Requests *)

Methods == {"POST", "GET"}

ValidCep == <<"2", "9", "9", "0", "2", "5", "5", "5">>
OtherValidCep == <<"0", "1", "0", "0", "1", "0", "0", "0">>

\* postal codes a client sends: two valid ones and the invalid shapes (too
\* short, empty, with a dash, with letters, too long, with a final newline)
CepSamples ==
    { ValidCep, OtherValidCep,
      <<"1", "2", "3", "4", "5">>,
      <<>>,
      <<"2", "9", "9", "0", "2", "-", "5", "5", "5">>,
      <<"a", "b", "c", "1", "2", "3", "4", "5">>,
      <<"1", "2", "3", "4", "5", "6", "7", "8", "9">>,
      ValidCep \o <<"\n">> }

\* shared.ZipcodeRequest{CEP} and its encoding
MarshalZipcodeRequest(cep) == JSONBody([cep |-> JStr(cep)])

\* request bodies: one that cannot be read, bytes that are no JSON, an
\* object without cep, an object whose cep is a number, objects with a cep
RequestBodies ==
    { [kind |-> "unreadable"],
      TextBody("{\"cep\": }"),
      JSONBody([other |-> JStr(<<>>)]),
      JSONBody([cep |-> [t |-> "number", v |-> ValidCep]]) }
    \cup { MarshalZipcodeRequest(c) : c \in CepSamples }

\* requests for a POST-with-JSON endpoint, and for /health
Requests(path) == [method : Methods, path : {path}, body : RequestBodies]
HealthRequests == [method : Methods, path : {"/health"}, body : {TextBody("")}]

\* requests of the standalone service: GET or POST /weather/<zipcode>
StandaloneRequests == [method : Methods, path : {"/weather/"}, zipcode : CepSamples]

NoRequest == [method |-> "", path |-> "", body |-> TextBody("")]

\* json.Unmarshal(body, &request) into shared.ZipcodeRequest
UnmarshalZipcodeRequest(body) ==
    IF body.kind = "json" /\ FieldOK(body.obj, "cep", "string")
    THEN [err |-> NoError, CEP |-> Field(body.obj, "cep", <<>>)]
    ELSE [err |-> Errorf("invalid character"), CEP |-> <<>>]

----------------------------------------------------------------------------
(* The upstream APIs *)

\* shared.ViaCEPResponse, shared.WeatherAPIResponse.Current and
\* shared.WeatherResponse at their zero values
ZeroLocation == [Localidade |-> "", UF |-> "", Erro |-> FALSE]
ZeroWeather == [TempC |-> 0, TempF |-> 0]
ZeroReport == [City |-> "", TempC |-> 0, TempF |-> 0, TempK |-> 0]

\* bodies the geocoding API answers with: a found city, its not-found flag,
\* the flag as a JSON string, an empty city, flag and city together, the flag
\* spelled out false, and bytes that are no JSON
GeoBodies ==
    { JSONBody([localidade |-> JStr("Vitoria"), uf |-> JStr("ES")]),
      JSONBody([erro |-> JBool(TRUE)]),
      JSONBody([erro |-> [t |-> "string", v |-> TRUE]]),
      JSONBody([localidade |-> JStr(""), uf |-> JStr("")]),
      JSONBody([erro |-> JBool(TRUE), localidade |-> JStr("Vitoria"), uf |-> JStr("ES")]),
      JSONBody([erro |-> JBool(FALSE), localidade |-> JStr("Sao Paulo"), uf |-> JStr("SP")]),
      TextBody("<html>") }

GeoOutcomes ==
    { TransportFailure(e) : e \in TransportErrors }
    \cup { Response(st, b) : st \in {200, 400, 404, 500}, b \in GeoBodies }

\* a weather sample as the weather API encodes it
WeatherSample(c, f) ==
    JSONBody([current |-> [t |-> "object",
                           v |-> [temp_c |-> JNum(c), temp_f |-> JNum(f)]]])

\* bodies the weather API answers with: samples (the last one with a
\* Fahrenheit value that is not the Celsius value converted), an object
\* without a sample, a sample of the wrong type, and bytes that are no JSON
WeatherBodies ==
    { WeatherSample(2550, 7790), WeatherSample(0, 3200),
      WeatherSample(-4000, -4000), WeatherSample(2500, 9999),
      WeatherSample(2830, 8290),
      JSONBody([error |-> JStr("no matching location")]),
      JSONBody([current |-> [t |-> "object",
                             v |-> [temp_c |-> [t |-> "string", v |-> 2550]]]]),
      TextBody("<html>") }

WeatherOutcomes ==
    { TransportFailure(e) : e \in TransportErrors }
    \cup { Response(st, b) : st \in {200, 400, 401, 500}, b \in WeatherBodies }

\* json.NewDecoder(resp.Body).Decode(&viaCEPResp)
DecodeViaCEPResponse(body) ==
    IF /\ body.kind = "json"
       /\ FieldOK(body.obj, "localidade", "string")
       /\ FieldOK(body.obj, "uf", "string")
       /\ FieldOK(body.obj, "erro", "bool")
    THEN [err |-> NoError,
          val |-> [Localidade |-> Field(body.obj, "localidade", ""),
                   UF |-> Field(body.obj, "uf", ""),
                   Erro |-> Field(body.obj, "erro", FALSE)]]
    ELSE [err |-> Errorf("json: cannot decode"), val |-> ZeroLocation]

\* json.NewDecoder(resp.Body).Decode(&weatherResp)
DecodeWeatherAPIResponse(body) ==
    IF body.kind = "json" /\ FieldOK(body.obj, "current", "object")
    THEN LET cur == Field(body.obj, "current", <<>>)
         IN  IF FieldOK(cur, "temp_c", "number") /\ FieldOK(cur, "temp_f", "number")
             THEN [err |-> NoError,
                   val |-> [TempC |-> Field(cur, "temp_c", 0),
                            TempF |-> Field(cur, "temp_f", 0)]]
             ELSE [err |-> Errorf("json: cannot decode"), val |-> ZeroWeather]
    ELSE [err |-> Errorf("json: cannot decode"), val |-> ZeroWeather]

\* shared.WeatherResponse and its encoding
MarshalWeatherResponse(r) ==
    JSONBody([city |-> JStr(r.City), temp_C |-> JNum(r.TempC),
              temp_F |-> JNum(r.TempF), temp_K |-> JNum(r.TempK)])

\* json.Unmarshal(respBody, &weatherResponse)
UnmarshalWeatherResponse(body) ==
    IF /\ body.kind = "json"
       /\ FieldOK(body.obj, "city", "string")
       /\ FieldOK(body.obj, "temp_C", "number")
       /\ FieldOK(body.obj, "temp_F", "number")
       /\ FieldOK(body.obj, "temp_K", "number")
    THEN [err |-> NoError,
          val |-> [City |-> Field(body.obj, "city", ""),
                   TempC |-> Field(body.obj, "temp_C", 0),
                   TempF |-> Field(body.obj, "temp_F", 0),
                   TempK |-> Field(body.obj, "temp_K", 0)]]
    ELSE [err |-> Errorf("json: cannot unmarshal"), val |-> ZeroReport]

----------------------------------------------------------------------------
(* The Resolver: service-b *)

\* handleWeatherRequest up to the validation of the postal code: the status
\* and message of the error response, status 0 when every check passes
ServiceB_checkRequest(r) ==
    IF r.method # "POST"
    THEN [status |-> StatusMethodNotAllowed, message |-> "method not allowed", cep |-> <<>>]
    ELSE IF r.body.kind = "unreadable"
    THEN [status |-> StatusBadRequest, message |-> "invalid request body", cep |-> <<>>]
    ELSE LET request == UnmarshalZipcodeRequest(r.body)
         IN  IF ~request.err.nil
             THEN [status |-> StatusBadRequest, message |-> "invalid json format", cep |-> <<>>]
             ELSE IF ~ServiceB_isValidZipcode(request.CEP)
             THEN [status |-> StatusUnprocessableEntity, message |-> "invalid zipcode",
                   cep |-> request.CEP]
             ELSE [status |-> 0, message |-> "", cep |-> request.CEP]

\* the lookup failing only when the flag and the empty city come together
ServiceB_getLocationFromCEPBothNeeded(out) ==
    IF out.kind = "error"
    THEN [err |-> Errorf("error contacting ViaCEP: " \o out.err), val |-> ZeroLocation]
    ELSE IF out.status # StatusOK
    THEN [err |-> Errorf("ViaCEP returned status code " \o ToString(out.status)),
          val |-> ZeroLocation]
    ELSE LET viaCEPResp == DecodeViaCEPResponse(out.body)
         IN  IF ~viaCEPResp.err.nil
             THEN [err |-> Errorf("error decoding ViaCEP response: " \o viaCEPResp.err.text),
                   val |-> ZeroLocation]
             ELSE IF viaCEPResp.val.Erro /\ viaCEPResp.val.Localidade = ""
             THEN [err |-> Errorf("CEP not found"), val |-> ZeroLocation]
             ELSE [err |-> NoError, val |-> viaCEPResp.val]

\* getLocationFromCEP from the return of s.client.Do on
ServiceB_getLocationFromCEP(out) ==
    IF out.kind = "error"
    THEN [err |-> Errorf("error contacting ViaCEP: " \o out.err), val |-> ZeroLocation]
    ELSE IF out.status # StatusOK
    THEN [err |-> Errorf("ViaCEP returned status code " \o ToString(out.status)),
          val |-> ZeroLocation]
    ELSE LET viaCEPResp == DecodeViaCEPResponse(out.body)
         IN  IF ~viaCEPResp.err.nil
             THEN [err |-> Errorf("error decoding ViaCEP response: " \o viaCEPResp.err.text),
                   val |-> ZeroLocation]
             ELSE IF viaCEPResp.val.Erro \/ viaCEPResp.val.Localidade = ""
             THEN [err |-> Errorf("CEP not found"), val |-> ZeroLocation]
             ELSE [err |-> NoError, val |-> viaCEPResp.val]

\* the weather step entered whatever the geocoding returned
ServiceB_afterGeocodingUnchecked(locErr, keyErr) ==
    IF ~keyErr.nil THEN "nokey" ELSE "weather"

\* the API key looked at before the geocoding error
ServiceB_afterGeocodingKeyFirst(locErr, keyErr) ==
    IF ~keyErr.nil THEN "nokey"
    ELSE IF ~locErr.nil THEN "notfound"
    ELSE "weather"

\* handleWeatherRequest between its two steps: the geocoding error ends the
\* request; getWeatherFromLocation is entered only without one, and returns
\* before its call when the API key is empty
ServiceB_afterGeocoding(locErr, keyErr) ==
    IF ~locErr.nil THEN "notfound"
    ELSE IF ~keyErr.nil THEN "nokey"
    ELSE "weather"

\* getWeatherFromLocation up to the outbound call: the check of the API key
ServiceB_checkAPIKey(c) ==
    IF c.WeatherAPIKey = ""
    THEN Errorf("WEATHER_API_KEY environment variable not set")
    ELSE NoError

\* the body decoded whatever the status
ServiceB_getWeatherFromLocationAnyStatus(out) ==
    IF out.kind = "error"
    THEN [err |-> Errorf("failed to make request: " \o out.err), val |-> ZeroWeather]
    ELSE LET weatherResp == DecodeWeatherAPIResponse(out.body)
         IN  IF ~weatherResp.err.nil
             THEN [err |-> Errorf("error decoding response: " \o weatherResp.err.text),
                   val |-> ZeroWeather]
             ELSE [err |-> NoError, val |-> weatherResp.val]

\* getWeatherFromLocation from the return of s.client.Do on
ServiceB_getWeatherFromLocation(out) ==
    IF out.kind = "error"
    THEN [err |-> Errorf("failed to make request: " \o out.err), val |-> ZeroWeather]
    ELSE IF out.status # StatusOK
    THEN [err |-> Errorf("weather API returned status code " \o ToString(out.status)
                         \o ": " \o BodyText(out.body)),
          val |-> ZeroWeather]
    ELSE LET weatherResp == DecodeWeatherAPIResponse(out.body)
         IN  IF ~weatherResp.err.nil
             THEN [err |-> Errorf("error decoding response: " \o weatherResp.err.text),
                   val |-> ZeroWeather]
             ELSE [err |-> NoError, val |-> weatherResp.val]

\* Fahrenheit converted from Celsius instead of taken from the sample
ServiceB_responseRecomputed(location, weather) ==
    [City |-> location.Localidade,
     TempC |-> weather.TempC,
     TempF |-> (weather.TempC * 9) \div 5 + 3200,
     TempK |-> weather.TempC + KelvinOffset]

\* the report handleWeatherRequest assembles
ServiceB_response(location, weather) ==
    [City |-> location.Localidade,
     TempC |-> weather.TempC,
     TempF |-> weather.TempF,
     TempK |-> weather.TempC + KelvinOffset]

----------------------------------------------------------------------------
(* The Gateway: service-a *)

\* handleCEPRequest up to the validation of the postal code: the status and
\* message of the error response, status 0 when every check passes
\* the body parsed before the method is looked at
ServiceA_checkRequestParseFirst(r) ==
    IF r.body.kind = "unreadable"
    THEN [status |-> StatusBadRequest, message |-> "invalid request body", cep |-> <<>>]
    ELSE LET request == UnmarshalZipcodeRequest(r.body)
         IN  IF ~request.err.nil
             THEN [status |-> StatusBadRequest, message |-> "invalid json format", cep |-> <<>>]
             ELSE IF r.method # "POST"
             THEN [status |-> StatusMethodNotAllowed, message |-> "method not allowed",
                   cep |-> <<>>]
             ELSE IF ~ServiceA_isValidZipcode(request.CEP)
             THEN [status |-> StatusUnprocessableEntity, message |-> "invalid zipcode",
                   cep |-> request.CEP]
             ELSE [status |-> 0, message |-> "", cep |-> request.CEP]

ServiceA_checkRequest(r) ==
    IF r.method # "POST"
    THEN [status |-> StatusMethodNotAllowed, message |-> "method not allowed", cep |-> <<>>]
    ELSE IF r.body.kind = "unreadable"
    THEN [status |-> StatusBadRequest, message |-> "invalid request body", cep |-> <<>>]
    ELSE LET request == UnmarshalZipcodeRequest(r.body)
         IN  IF ~request.err.nil
             THEN [status |-> StatusBadRequest, message |-> "invalid json format", cep |-> <<>>]
             ELSE IF ~ServiceA_isValidZipcode(request.CEP)
             THEN [status |-> StatusUnprocessableEntity, message |-> "invalid zipcode",
                   cep |-> request.CEP]
             ELSE [status |-> 0, message |-> "", cep |-> request.CEP]

\* the request callServiceB sends
ServiceA_request(cep) ==
    [method |-> "POST", path |-> "/weather", body |-> MarshalZipcodeRequest(cep)]

\* the body decoded whatever status is neither 404 nor 422
ServiceA_callServiceBAnyStatus(out) ==
    IF out.kind = "error"
    THEN [err |-> Errorf("failed to make request to service B: " \o out.err),
          val |-> ZeroReport]
    ELSE IF out.kind = "unreadable"
    THEN [err |-> Errorf("failed to read response body: unexpected EOF"),
          val |-> ZeroReport]
    ELSE IF out.status = StatusNotFound
    THEN [err |-> Errorf("can not find zipcode"), val |-> ZeroReport]
    ELSE IF out.status = StatusUnprocessableEntity
    THEN [err |-> Errorf("invalid zipcode"), val |-> ZeroReport]
    ELSE LET weatherResponse == UnmarshalWeatherResponse(out.body)
         IN  IF ~weatherResponse.err.nil
             THEN [err |-> Errorf("failed to unmarshal response: "
                                  \o weatherResponse.err.text),
                   val |-> ZeroReport]
             ELSE [err |-> NoError, val |-> weatherResponse.val]

\* the body of a response of another status returned as the error text
ServiceA_callServiceBBodyAsError(out) ==
    IF out.kind = "error"
    THEN [err |-> Errorf("failed to make request to service B: " \o out.err),
          val |-> ZeroReport]
    ELSE IF out.kind = "unreadable"
    THEN [err |-> Errorf("failed to read response body: unexpected EOF"),
          val |-> ZeroReport]
    ELSE IF out.status = StatusNotFound
    THEN [err |-> Errorf("can not find zipcode"), val |-> ZeroReport]
    ELSE IF out.status = StatusUnprocessableEntity
    THEN [err |-> Errorf("invalid zipcode"), val |-> ZeroReport]
    ELSE IF out.status # StatusOK
    THEN [err |-> Errorf(BodyText(out.body)), val |-> ZeroReport]
    ELSE LET weatherResponse == UnmarshalWeatherResponse(out.body)
         IN  IF ~weatherResponse.err.nil
             THEN [err |-> Errorf("failed to unmarshal response: "
                                  \o weatherResponse.err.text),
                   val |-> ZeroReport]
             ELSE [err |-> NoError, val |-> weatherResponse.val]

\* callServiceB from the return of s.client.Do on
ServiceA_callServiceB(out) ==
    IF out.kind = "error"
    THEN [err |-> Errorf("failed to make request to service B: " \o out.err),
          val |-> ZeroReport]
    ELSE IF out.kind = "unreadable"
    THEN [err |-> Errorf("failed to read response body: unexpected EOF"),
          val |-> ZeroReport]
    ELSE IF out.status = StatusNotFound
    THEN [err |-> Errorf("can not find zipcode"), val |-> ZeroReport]
    ELSE IF out.status = StatusUnprocessableEntity
    THEN [err |-> Errorf("invalid zipcode"), val |-> ZeroReport]
    ELSE IF out.status # StatusOK
    THEN [err |-> Errorf("service B returned status " \o ToString(out.status)
                         \o ": " \o BodyText(out.body)),
          val |-> ZeroReport]
    ELSE LET weatherResponse == UnmarshalWeatherResponse(out.body)
         IN  IF ~weatherResponse.err.nil
             THEN [err |-> Errorf("failed to unmarshal response: "
                                  \o weatherResponse.err.text),
                   val |-> ZeroReport]
             ELSE [err |-> NoError, val |-> weatherResponse.val]

\* the two error texts answered with each other's status
ServiceA_respondSwapped(w, res) ==
    IF ~res.err.nil
    THEN IF res.err.text = "can not find zipcode"
         THEN ServiceA_sendErrorResponse(w, "can not find zipcode",
                                         StatusUnprocessableEntity)
         ELSE IF res.err.text = "invalid zipcode"
         THEN ServiceA_sendErrorResponse(w, "invalid zipcode", StatusNotFound)
         ELSE ServiceA_sendErrorResponse(w, "error processing request",
                                         StatusInternalServerError)
    ELSE Write(w, MarshalWeatherResponse(res.val))

\* Kelvin derived again from Celsius instead of passed through
ServiceA_respondRecomputed(w, res) ==
    IF ~res.err.nil
    THEN IF res.err.text = "can not find zipcode"
         THEN ServiceA_sendErrorResponse(w, "can not find zipcode", StatusNotFound)
         ELSE IF res.err.text = "invalid zipcode"
         THEN ServiceA_sendErrorResponse(w, "invalid zipcode", StatusUnprocessableEntity)
         ELSE ServiceA_sendErrorResponse(w, "error processing request",
                                         StatusInternalServerError)
    ELSE Write(w, MarshalWeatherResponse(
                      [res.val EXCEPT !.TempK = res.val.TempC + KelvinOffset]))

\* handleCEPRequest from the return of callServiceB on
ServiceA_respond(w, res) ==
    IF ~res.err.nil
    THEN IF res.err.text = "can not find zipcode"
         THEN ServiceA_sendErrorResponse(w, "can not find zipcode", StatusNotFound)
         ELSE IF res.err.text = "invalid zipcode"
         THEN ServiceA_sendErrorResponse(w, "invalid zipcode", StatusUnprocessableEntity)
         ELSE ServiceA_sendErrorResponse(w, "error processing request",
                                         StatusInternalServerError)
    ELSE Write(w, MarshalWeatherResponse(res.val))

\* what answers at SERVICE_B_URL when it is not this Resolver: any status
\* with an error text, an error envelope, a report, a report with a field of
\* the wrong type, or bytes that are no JSON
ForeignBodies ==
    { TextBody("can not find zipcode"), TextBody("invalid zipcode"), TextBody("<html>"),
      MarshalErrorResponse("can not find zipcode"),
      MarshalErrorResponse("invalid zipcode"),
      MarshalWeatherResponse([City |-> "Vitoria", TempC |-> 2550, TempF |-> 7790,
                              TempK |-> 29865]),
      MarshalWeatherResponse([City |-> "Sao Paulo", TempC |-> 2500, TempF |-> 9999,
                              TempK |-> 1]),
      JSONBody([city |-> JStr("Vitoria"), temp_C |-> [t |-> "string", v |-> 2550]]) }

ForeignStatuses == {200, 400, 404, 405, 422, 500, 503}

ForeignOutcomes ==
    { Response(st, b) : st \in ForeignStatuses, b \in ForeignBodies }
    \cup { BrokenResponse(st) : st \in ForeignStatuses }

----------------------------------------------------------------------------
(* The standalone service: main.go *)

\* the postal code never validated
checkRequestUnvalidated(r) == [status |-> 0, message |-> "", cep |-> r.zipcode]

\* handleWeatherRequest up to the validation of the postal code
checkRequest(r) ==
    IF ~isValidZipcode(r.zipcode)
    THEN [status |-> StatusUnprocessableEntity, message |-> "invalid zipcode",
          cep |-> r.zipcode]
    ELSE [status |-> 0, message |-> "", cep |-> r.zipcode]

\* getLocationFromCEP from the return of client.Get on
getLocationFromCEP(out) ==
    IF out.kind = "error"
    THEN [err |-> Errorf("error contacting ViaCEP: " \o out.err), val |-> ZeroLocation]
    ELSE IF out.status # StatusOK
    THEN [err |-> Errorf("ViaCEP returned status code " \o ToString(out.status)),
          val |-> ZeroLocation]
    ELSE LET viaCEPResp == DecodeViaCEPResponse(out.body)
         IN  IF ~viaCEPResp.err.nil
             THEN [err |-> Errorf("error decoding ViaCEP response: " \o viaCEPResp.err.text),
                   val |-> ZeroLocation]
             ELSE IF viaCEPResp.val.Erro \/ viaCEPResp.val.Localidade = ""
             THEN [err |-> Errorf("CEP not found"), val |-> ZeroLocation]
             ELSE [err |-> NoError, val |-> viaCEPResp.val]

\* getWeatherFromLocation up to the outbound call: the check of the API key
checkAPIKey(c) ==
    IF c.WeatherAPIKey = ""
    THEN Errorf("WEATHER_API_KEY environment variable not set")
    ELSE NoError

\* the sample decoded whatever the status
getWeatherFromLocationAnyStatus(out) ==
    IF out.kind = "error"
    THEN [err |-> Errorf("failed to make request: " \o out.err), val |-> ZeroWeather]
    ELSE LET weatherResp == DecodeWeatherAPIResponse(out.body)
         IN  IF ~weatherResp.err.nil
             THEN [err |-> Errorf("error decoding response: " \o weatherResp.err.text),
                   val |-> ZeroWeather]
             ELSE [err |-> NoError, val |-> weatherResp.val]

\* getWeatherFromLocation from the return of client.Get on
getWeatherFromLocation(out) ==
    IF out.kind = "error"
    THEN [err |-> Errorf("failed to make request: " \o out.err), val |-> ZeroWeather]
    ELSE IF out.status # StatusOK
    THEN [err |-> Errorf("weather API returned status code " \o ToString(out.status)
                         \o ": " \o BodyText(out.body)),
          val |-> ZeroWeather]
    ELSE LET weatherResp == DecodeWeatherAPIResponse(out.body)
         IN  IF ~weatherResp.err.nil
             THEN [err |-> Errorf("error decoding response: " \o weatherResp.err.text),
                   val |-> ZeroWeather]
             ELSE [err |-> NoError, val |-> weatherResp.val]

\* a mock sample left at its zero value
getMockWeatherDataZero(city) == ZeroWeather

getMockWeatherData(city) == [TempC |-> MockTempC, TempF |-> MockTempF]

\* WeatherResponse of main.go (no city) and its encoding
response(weather) ==
    [TempC |-> weather.TempC,
     TempF |-> weather.TempF,
     TempK |-> weather.TempC + KelvinOffset]

MarshalStandaloneResponse(r) ==
    JSONBody([temp_C |-> JNum(r.TempC), temp_F |-> JNum(r.TempF),
              temp_K |-> JNum(r.TempK)])

\* the mock sample replacing a failed lookup whatever the mode
respondWeatherAlwaysMock(w, c, city, res) ==
    LET weather == IF ~res.err.nil THEN getMockWeatherData(city) ELSE res.val
    IN  Write(w, MarshalStandaloneResponse(response(weather)))

\* the error branch without its return: the report follows the envelope
respondWeatherNoReturn(w, c, city, res) ==
    LET weather == IF ~res.err.nil /\ c.DevMode THEN getMockWeatherData(city)
                   ELSE res.val
        failed == IF ~res.err.nil /\ ~c.DevMode
                  THEN sendErrorResponse(w, "error getting weather information",
                                         StatusInternalServerError)
                  ELSE w
    IN  Write(failed, MarshalStandaloneResponse(response(weather)))

\* handleWeatherRequest from the return of getWeatherFromLocation on: the
\* mock sample replaces a failed lookup in development mode only
respondWeather(w, c, city, res) ==
    IF ~res.err.nil /\ ~c.DevMode
    THEN sendErrorResponse(w, "error getting weather information",
                           StatusInternalServerError)
    ELSE LET weather == IF ~res.err.nil THEN getMockWeatherData(city) ELSE res.val
         IN  Write(w, MarshalStandaloneResponse(response(weather)))

----------------------------------------------------------------------------
(* Spans, span events and log calls of the Gateway and of the Resolver *)

\* tracer.Start / span.End / span.AddEvent with the keys of its attributes,
\* a call of the logger, client.Do and its return, the response written
Start(span) == [k |-> "start", span |-> span]
End(span) == [k |-> "end", span |-> span]
AddEvent(span, name, attrs) == [k |-> "event", span |-> span, name |-> name, attrs |-> attrs]
Log(level, message) == [k |-> "log", level |-> level, message |-> message]
Call(callee) == [k |-> "call", callee |-> callee]
Return(callee) == [k |-> "return", callee |-> callee]
Written(code) == [k |-> "write", code |-> code]

\* the log calls of the request checks, by the check that failed
ServiceA_checkLogs(c) ==
    IF c.message = "method not allowed" THEN <<>>
    ELSE IF c.message = "invalid request body"
    THEN <<Log("ERROR", "Erro ao ler body da requisicao")>>
    ELSE IF c.message = "invalid json format"
    THEN <<Log("ERROR", "Erro ao fazer parse do JSON")>>
    ELSE IF c.message = "invalid zipcode"
    THEN <<Log("INFO", "Requisicao recebida"), Log("WARN", "CEP invalido")>>
    ELSE <<Log("INFO", "Requisicao recebida")>>
ServiceB_checkLogs(c) ==
    IF c.message = "method not allowed" THEN <<>>
    ELSE IF c.message = "invalid request body"
    THEN <<Log("ERROR", "Erro ao ler body da requisicao")>>
    ELSE IF c.message = "invalid json format"
    THEN <<Log("ERROR", "Erro ao fazer parse do JSON")>>
    ELSE IF c.message = "invalid zipcode"
    THEN <<Log("INFO", "Requisicao recebida"), Log("WARN", "CEP invalido")>>
    ELSE <<Log("INFO", "Requisicao recebida")>>

\* the response written, then the deferred span.End of the handler
ServiceA_leave(code) == <<Written(code), End("service-a.handleCEPRequest")>>
ServiceB_leave(code) == <<Written(code), End("service-b.handleWeatherRequest")>>

\* callServiceB up to s.client.Do, and from its return to the function's
ServiceA_callStart ==
    <<Start("service-a.callServiceB"),
      AddEvent("service-a.callServiceB", "Calling Service B", {"cep", "service_b_url"}),
      Call("service-b")>>
ServiceA_callEnd(out) ==
    <<Return("service-b"),
      AddEvent("service-a.callServiceB", "Service B response received", {"duration"})>>
    \o (IF out.kind = "response" THEN <<Log("DEBUG", "Resposta do Service B")>> ELSE <<>>)
    \o <<End("service-a.callServiceB")>>

\* getLocationFromCEP up to s.client.Do
ServiceB_geoStart ==
    <<Start("service-b.getLocationFromCEP"),
      AddEvent("service-b.getLocationFromCEP", "Calling ViaCEP API", {"cep"}),
      Log("DEBUG", "Consultando ViaCEP"),
      Call("viacep")>>

\* the log call of getLocationFromCEP, by the branch it returns through
ServiceB_getLocationLog(out) ==
    IF out.kind = "error" THEN Log("ERROR", "Erro ao consultar ViaCEP")
    ELSE IF out.status # StatusOK THEN Log("ERROR", "ViaCEP retornou status invalido")
    ELSE LET viaCEPResp == DecodeViaCEPResponse(out.body)
         IN  IF ~viaCEPResp.err.nil
             THEN Log("ERROR", "Erro ao decodificar resposta do ViaCEP")
             ELSE IF viaCEPResp.val.Erro \/ viaCEPResp.val.Localidade = ""
             THEN Log("WARN", "CEP nao encontrado")
             ELSE Log("INFO", "CEP encontrado com sucesso")

\* the event added only once the call is known to have succeeded
ServiceB_geoEndEventOnSuccess(out) ==
    <<Return("viacep")>>
    \o (IF out.kind = "error" THEN <<>>
        ELSE <<AddEvent("service-b.getLocationFromCEP", "ViaCEP response received",
                        {"duration"})>>)
    \o <<ServiceB_getLocationLog(out), End("service-b.getLocationFromCEP")>>

\* getLocationFromCEP from the return of s.client.Do to the function's
ServiceB_geoEnd(out) ==
    <<Return("viacep"),
      AddEvent("service-b.getLocationFromCEP", "ViaCEP response received", {"duration"}),
      ServiceB_getLocationLog(out),
      End("service-b.getLocationFromCEP")>>

\* handleWeatherRequest and getWeatherFromLocation between the two calls
ServiceB_betweenCalls(step) ==
    IF step = "notfound"
    THEN <<Log("ERROR", "Erro ao obter localizacao")>> \o ServiceB_leave(StatusNotFound)
    ELSE <<Log("INFO", "Localizacao encontrada"),
           Start("service-b.getWeatherFromLocation"),
           AddEvent("service-b.getWeatherFromLocation", "Calling WeatherAPI", {"city"}),
           Log("DEBUG", "Verificando chave de API")>>
         \o (IF step = "nokey"
             THEN <<End("service-b.getWeatherFromLocation"),
                    Log("ERROR", "Erro ao obter clima")>>
                  \o ServiceB_leave(StatusInternalServerError)
             ELSE <<Log("DEBUG", "Fazendo requisicao para WeatherAPI"),
                    Call("weatherapi")>>)

\* the log call of getWeatherFromLocation, by the branch it returns through
ServiceB_getWeatherLog(out) ==
    IF out.kind = "error" THEN Log("ERROR", "Falha na requisicao HTTP")
    ELSE IF out.status # StatusOK THEN Log("ERROR", "Resposta de erro da WeatherAPI")
    ELSE IF ~DecodeWeatherAPIResponse(out.body).err.nil
    THEN Log("ERROR", "Erro ao decodificar resposta")
    ELSE Log("INFO", "Dados de clima obtidos com sucesso")

\* getWeatherFromLocation from the return of s.client.Do to the function's,
\* and handleWeatherRequest to its end
ServiceB_weatherEnd(out) ==
    <<Return("weatherapi"),
      AddEvent("service-b.getWeatherFromLocation", "WeatherAPI response received",
               {"duration"}),
      ServiceB_getWeatherLog(out),
      End("service-b.getWeatherFromLocation")>>
    \o (IF ~ServiceB_getWeatherFromLocation(out).err.nil
        THEN <<Log("ERROR", "Erro ao obter clima")>>
             \o ServiceB_leave(StatusInternalServerError)
        ELSE <<Log("INFO", "Enviando resposta")>> \o ServiceB_leave(StatusOK))

----------------------------------------------------------------------------
(* The state machine *)

Configs == [WeatherAPIKey : {"", "test_api_key"}, DevMode : BOOLEAN]

NoCalls == [resolver |-> 0, geoB |-> 0, weatherB |-> 0, geoS |-> 0, weatherS |-> 0]
NoVerdict == [checked |-> FALSE, A |-> FALSE, B |-> FALSE, S |-> FALSE]

Idle ==
    /\ pcA = "idle" /\ reqA = NoRequest /\ wA = NewResponseWriter
    /\ outAB = NoRequest /\ inAB = NoOutcome
    /\ obsA = <<>> /\ obsB = <<>>
    /\ pcB = "idle" /\ reqB = NoRequest /\ wB = NewResponseWriter
    /\ geoB = NoOutcome /\ locB = ZeroLocation /\ weatherB = NoOutcome
    /\ pcS = "idle" /\ reqS = NoRequest /\ wS = NewResponseWriter
    /\ geoS = NoOutcome /\ locS = ZeroLocation /\ weatherS = NoOutcome
    /\ calls = NoCalls

\* a process at the first line of main, and one whose start and exit are
\* not followed: it is serving
NewProcess == [pc |-> "main", inits |-> 0, cleanups |-> 0, served |-> 0,
               buffered |-> 0, exported |-> 0, exit |-> ""]
Untracked == [NewProcess EXCEPT !.pc = "untracked"]

\* upstreams answering anything, and no request handled before
AnyEnv == [fixed |-> FALSE, cep |-> <<>>, geo |-> NoOutcome, weather |-> NoOutcome]
NoFirst == [n |-> 0, target |-> "", w |-> NewResponseWriter]

Init ==
    /\ target \in {"A", "B", "S"}
    /\ conf \in Configs
    /\ Idle
    /\ zipcode = <<>>
    /\ matched = NoVerdict
    /\ env = AnyEnv
    /\ first = NoFirst
    /\ slots = <<>>
    /\ proc = Untracked

(* ---- /health ---- *)

A_healthCheck ==
    /\ target = "A" /\ pcA = "idle"
    /\ \E r \in HealthRequests :
        /\ reqA' = r
        /\ wA' = ServiceA_healthCheck(wA, r)
    /\ pcA' = "done"
    /\ obsA' = <<Written(StatusOK)>>
    /\ UNCHANGED <<target, conf, outAB, inAB, varsB, varsS, calls, varsZ>>

B_healthCheck ==
    /\ target = "B" /\ pcB = "idle"
    /\ \E r \in HealthRequests :
        /\ reqB' = r
        /\ wB' = ServiceB_healthCheck(wB, r)
    /\ pcB' = "done"
    /\ obsB' = <<Written(StatusOK)>>
    /\ UNCHANGED <<target, conf, geoB, locB, weatherB, varsA, varsS, calls, varsZ>>

S_healthCheck ==
    /\ target = "S" /\ pcS = "idle"
    /\ \E r \in HealthRequests :
        /\ reqS' = r
        /\ wS' = healthCheck(wS, r)
    /\ pcS' = "done"
    /\ UNCHANGED <<target, conf, geoS, locS, weatherS, varsA, varsB, calls, varsZ>>

(* ---- the Resolver ---- *)

\* what the geocoding and the weather upstreams can answer
GeoAnswers == IF env.fixed THEN {env.geo} ELSE GeoOutcomes
WeatherAnswers == IF env.fixed THEN {env.weather} ELSE WeatherOutcomes

\* the requests a client can send to each service
GatewayInbox ==
    IF env.fixed
    THEN {[method |-> "POST", path |-> "/cep", body |-> MarshalZipcodeRequest(env.cep)]}
    ELSE Requests("/cep")
ClientInbox ==
    IF env.fixed
    THEN {[method |-> "POST", path |-> "/weather", body |-> MarshalZipcodeRequest(env.cep)]}
    ELSE Requests("/weather")
StandaloneInbox ==
    IF env.fixed
    THEN {[method |-> "GET", path |-> "/weather/", zipcode |-> env.cep]}
    ELSE StandaloneRequests

\* the requests that can reach the Resolver: a client's, or the Gateway's
\* while its call is in flight
ResolverInbox ==
    IF target = "B" THEN ClientInbox
    ELSE IF target = "A" /\ pcA = "callB" THEN {outAB}
    ELSE {}

\* handleWeatherRequest until the geocoding call is sent
B_handleWeatherRequest ==
    /\ pcB = "idle"
    /\ \E r \in ResolverInbox :
        LET c == ServiceB_checkRequest(r)
        IN  /\ reqB' = r
            /\ IF c.status # 0
               THEN /\ wB' = ServiceB_sendErrorResponse(wB, c.message, c.status)
                    /\ pcB' = "done"
                    /\ calls' = calls
                    /\ obsB' = <<Start("service-b.handleWeatherRequest")>>
                               \o ServiceB_checkLogs(c) \o ServiceB_leave(c.status)
               ELSE /\ wB' = wB
                    /\ pcB' = "geo"
                    /\ calls' = [calls EXCEPT !.geoB = @ + 1]
                    /\ obsB' = <<Start("service-b.handleWeatherRequest")>>
                               \o ServiceB_checkLogs(c) \o ServiceB_geoStart
    /\ UNCHANGED <<target, conf, geoB, locB, weatherB, varsA, varsS, varsZ>>

\* the geocoding call repeated once when it failed
B_getLocationReturnRetried ==
    /\ pcB = "geo"
    /\ \E out \in GeoAnswers :
        LET location == ServiceB_getLocationFromCEP(out)
            keyErr == ServiceB_checkAPIKey(conf)
        IN  /\ geoB' = out
            /\ locB' = location.val
            /\ obsB' = obsB \o ServiceB_geoEnd(out)
                         \o (IF ~location.err.nil /\ calls.geoB < 2
                             THEN ServiceB_geoStart
                             ELSE ServiceB_betweenCalls(
                                      ServiceB_afterGeocoding(location.err, keyErr)))
            /\ IF ~location.err.nil /\ calls.geoB < 2
               THEN /\ wB' = wB
                    /\ pcB' = "geo"
                    /\ calls' = [calls EXCEPT !.geoB = @ + 1]
               ELSE IF ~location.err.nil
               THEN /\ wB' = ServiceB_sendErrorResponse(wB, "can not find zipcode",
                                                        StatusNotFound)
                    /\ pcB' = "done"
                    /\ calls' = calls
               ELSE IF ~keyErr.nil
               THEN /\ wB' = ServiceB_sendErrorResponse(
                                 wB, "error getting weather information",
                                 StatusInternalServerError)
                    /\ pcB' = "done"
                    /\ calls' = calls
               ELSE /\ wB' = wB
                    /\ pcB' = "weather"
                    /\ calls' = [calls EXCEPT !.weatherB = @ + 1]
    /\ UNCHANGED <<target, conf, reqB, weatherB, varsA, varsS, varsZ>>

\* the geocoding call returns; handleWeatherRequest until the weather call
\* is sent
B_getLocationReturn ==
    /\ pcB = "geo"
    /\ \E out \in GeoAnswers :
        LET location == ServiceB_getLocationFromCEP(out)
            keyErr == ServiceB_checkAPIKey(conf)
        IN  /\ geoB' = out
            /\ locB' = location.val
            /\ obsB' = obsB \o ServiceB_geoEnd(out)
                         \o ServiceB_betweenCalls(
                                ServiceB_afterGeocoding(location.err, keyErr))
            /\ LET step == ServiceB_afterGeocoding(location.err, keyErr)
               IN  IF step = "notfound"
                   THEN /\ wB' = ServiceB_sendErrorResponse(wB, "can not find zipcode",
                                                            StatusNotFound)
                        /\ pcB' = "done"
                        /\ calls' = calls
                   ELSE IF step = "nokey"
                   THEN /\ wB' = ServiceB_sendErrorResponse(
                                     wB, "error getting weather information",
                                     StatusInternalServerError)
                        /\ pcB' = "done"
                        /\ calls' = calls
                   ELSE /\ wB' = wB
                        /\ pcB' = "weather"
                        /\ calls' = [calls EXCEPT !.weatherB = @ + 1]
    /\ UNCHANGED <<target, conf, reqB, weatherB, varsA, varsS, varsZ>>

\* the weather call returns; handleWeatherRequest to its end
B_getWeatherReturn ==
    /\ pcB = "weather"
    /\ \E out \in WeatherAnswers :
        LET weather == ServiceB_getWeatherFromLocation(out)
        IN  /\ weatherB' = out
            /\ obsB' = obsB \o ServiceB_weatherEnd(out)
            /\ wB' = IF ~weather.err.nil
                     THEN ServiceB_sendErrorResponse(
                              wB, "error getting weather information",
                              StatusInternalServerError)
                     ELSE Write(wB, MarshalWeatherResponse(
                                        ServiceB_response(locB, weather.val)))
    /\ pcB' = "done"
    /\ UNCHANGED <<target, conf, reqB, geoB, locB, varsA, varsS, calls, varsZ>>

(* ---- the Gateway ---- *)

\* handleCEPRequest until the call to the Resolver is sent
A_handleCEPRequest ==
    /\ target = "A" /\ pcA = "idle"
    /\ \E r \in GatewayInbox :
        LET c == ServiceA_checkRequest(r)
        IN  /\ reqA' = r
            /\ IF c.status # 0
               THEN /\ wA' = ServiceA_sendErrorResponse(wA, c.message, c.status)
                    /\ pcA' = "done"
                    /\ outAB' = outAB
                    /\ calls' = calls
                    /\ obsA' = <<Start("service-a.handleCEPRequest")>>
                               \o ServiceA_checkLogs(c) \o ServiceA_leave(c.status)
               ELSE /\ wA' = wA
                    /\ pcA' = "callB"
                    /\ outAB' = ServiceA_request(c.cep)
                    /\ calls' = [calls EXCEPT !.resolver = @ + 1]
                    /\ obsA' = <<Start("service-a.handleCEPRequest")>>
                               \o ServiceA_checkLogs(c) \o ServiceA_callStart
    /\ UNCHANGED <<target, conf, inAB, varsB, varsS, varsZ>>

\* what s.client.Do can return: a transport failure at any time, the
\* Resolver's response once it has written it, or the response of whatever
\* else answers at SERVICE_B_URL when the request never reached the Resolver
\* (the Resolver's response alone where the upstreams are fixed)
ResolverOutcomes ==
    (IF pcB = "done" THEN {WireResponse(wB)} ELSE {})
    \cup (IF env.fixed THEN {} ELSE { TransportFailure(e) : e \in TransportErrors })
    \cup (IF pcB = "idle" /\ ~env.fixed THEN ForeignOutcomes ELSE {})

\* the call to the Resolver returns; handleCEPRequest to its end
A_callServiceBReturn ==
    /\ pcA = "callB"
    /\ \E out \in ResolverOutcomes :
        /\ inAB' = out
        /\ wA' = ServiceA_respond(wA, ServiceA_callServiceB(out))
        /\ obsA' = obsA \o ServiceA_callEnd(out)
                   \o (IF ~ServiceA_callServiceB(out).err.nil
                       THEN <<Log("ERROR", "Erro ao chamar Service B")>>
                       ELSE <<>>)
                   \o ServiceA_leave(ServiceA_respond(wA, ServiceA_callServiceB(out)).code)
    /\ pcA' = "done"
    /\ UNCHANGED <<target, conf, reqA, outAB, varsB, varsS, calls, varsZ>>

(* ---- the standalone service ---- *)

\* handleWeatherRequest until the geocoding call is sent
S_handleWeatherRequest ==
    /\ target = "S" /\ pcS = "idle"
    /\ \E r \in StandaloneInbox :
        LET c == checkRequest(r)
        IN  /\ reqS' = r
            /\ IF c.status # 0
               THEN /\ wS' = sendErrorResponse(wS, c.message, c.status)
                    /\ pcS' = "done"
                    /\ calls' = calls
               ELSE /\ wS' = wS
                    /\ pcS' = "geo"
                    /\ calls' = [calls EXCEPT !.geoS = @ + 1]
    /\ UNCHANGED <<target, conf, geoS, locS, weatherS, varsA, varsB, varsZ>>

\* the geocoding call returns; handleWeatherRequest until the weather call
\* is sent (a missing API key fails the lookup before any call)
S_getLocationReturn ==
    /\ pcS = "geo"
    /\ \E out \in GeoAnswers :
        LET location == getLocationFromCEP(out)
            keyErr == checkAPIKey(conf)
        IN  /\ geoS' = out
            /\ locS' = location.val
            /\ IF ~location.err.nil
               THEN /\ wS' = sendErrorResponse(wS, "can not find zipcode", StatusNotFound)
                    /\ pcS' = "done"
                    /\ calls' = calls
               ELSE IF ~keyErr.nil
               THEN /\ wS' = respondWeather(wS, conf, location.val.Localidade,
                                            [err |-> keyErr, val |-> ZeroWeather])
                    /\ pcS' = "done"
                    /\ calls' = calls
               ELSE /\ wS' = wS
                    /\ pcS' = "weather"
                    /\ calls' = [calls EXCEPT !.weatherS = @ + 1]
    /\ UNCHANGED <<target, conf, reqS, weatherS, varsA, varsB, varsZ>>

\* the fallback switched off in the package-level conf once it has been used
S_getWeatherReturnFallbackOnce ==
    /\ pcS = "weather"
    /\ \E out \in WeatherAnswers :
        /\ weatherS' = out
        /\ wS' = respondWeather(wS, conf, locS.Localidade, getWeatherFromLocation(out))
        /\ conf' = IF ~getWeatherFromLocation(out).err.nil
                   THEN [conf EXCEPT !.DevMode = FALSE]
                   ELSE conf
    /\ pcS' = "done"
    /\ UNCHANGED <<target, reqS, geoS, locS, varsA, varsB, calls, varsZ>>

\* the weather call returns; handleWeatherRequest to its end
S_getWeatherReturn ==
    /\ pcS = "weather"
    /\ \E out \in WeatherAnswers :
        /\ weatherS' = out
        /\ wS' = respondWeather(wS, conf, locS.Localidade, getWeatherFromLocation(out))
    /\ pcS' = "done"
    /\ UNCHANGED <<target, conf, reqS, geoS, locS, varsA, varsB, calls, varsZ>>

Next ==
    \/ A_healthCheck
    \/ B_healthCheck
    \/ S_healthCheck
    \/ A_handleCEPRequest
    \/ A_callServiceBReturn
    \/ B_handleWeatherRequest
    \/ B_getLocationReturn
    \/ B_getWeatherReturn
    \/ S_handleWeatherRequest
    \/ S_getLocationReturn
    \/ S_getWeatherReturn

Spec == Init /\ [][Next]_vars

(* ---- the validator alone ---- *)

InitZip ==
    /\ target = "none"
    /\ conf = [WeatherAPIKey |-> "", DevMode |-> FALSE]
    /\ Idle
    /\ zipcode \in ZipInputs
    /\ matched = NoVerdict
    /\ env = AnyEnv
    /\ first = NoFirst
    /\ slots = <<>>
    /\ proc = Untracked

Validate ==
    /\ ~matched.checked
    /\ matched' = [checked |-> TRUE,
                   A |-> ServiceA_isValidZipcode(zipcode),
                   B |-> ServiceB_isValidZipcode(zipcode),
                   S |-> isValidZipcode(zipcode)]
    /\ UNCHANGED <<target, conf, varsA, varsB, varsS, calls, zipcode, env, first, slots, proc>>

NextZip == Validate

SpecZip == InitZip /\ [][NextZip]_vars

(* ---- two requests for one postal code, the upstreams answering the same ---- *)

FixedCeps ==
    { ValidCep, <<"1", "2", "3", "4", "5">>, <<>>, ValidCep \o <<"\n">> }

InitTwice ==
    /\ target \in {"A", "B", "S"}
    /\ conf \in Configs
    /\ Idle
    /\ zipcode = <<>>
    /\ matched = NoVerdict
    /\ env \in [fixed : {TRUE}, cep : FixedCeps, geo : GeoOutcomes,
                 weather : WeatherOutcomes]
    /\ first = NoFirst
    /\ slots = <<>>
    /\ proc = Untracked

\* the handler the client talks to has returned; what it wrote
Answered ==
    \/ target = "A" /\ pcA = "done"
    \/ target = "B" /\ pcB = "done"
    \/ target = "S" /\ pcS = "done"
Answer == IF target = "A" THEN wA ELSE IF target = "B" THEN wB ELSE wS

\* the client, answered, asks again, the same deployment or another one:
\* every handler starts from its locals' zero values and a new
\* ResponseWriter, the process keeps conf
NextRequest ==
    /\ env.fixed /\ first.n = 0
    /\ Answered
    /\ first' = [n |-> 1, target |-> target, w |-> Answer]
    /\ target' \in {"A", "B", "S"}
    /\ pcA' = "idle" /\ reqA' = NoRequest /\ wA' = NewResponseWriter
    /\ outAB' = NoRequest /\ inAB' = NoOutcome
    /\ obsA' = <<>> /\ obsB' = <<>>
    /\ pcB' = "idle" /\ reqB' = NoRequest /\ wB' = NewResponseWriter
    /\ geoB' = NoOutcome /\ locB' = ZeroLocation /\ weatherB' = NoOutcome
    /\ pcS' = "idle" /\ reqS' = NoRequest /\ wS' = NewResponseWriter
    /\ geoS' = NoOutcome /\ locS' = ZeroLocation /\ weatherS' = NoOutcome
    /\ calls' = NoCalls
    /\ UNCHANGED <<conf, zipcode, matched, env, slots, proc>>

NextTwice ==
    \/ A_handleCEPRequest
    \/ A_callServiceBReturn
    \/ B_handleWeatherRequest
    \/ B_getLocationReturn
    \/ B_getWeatherReturn
    \/ S_handleWeatherRequest
    \/ S_getLocationReturn
    \/ S_getWeatherReturn
    \/ NextRequest

SpecTwice == InitTwice /\ [][NextTwice]_vars

(* ---- requests in flight together, and clients that go away ---- *)

\* net/http runs each request's handler in a goroutine of its own
Workers == 1..MaxInFlight

\* a handler not yet called: its locals at their zero values; ctxDone is the
\* position the handler was at when r.Context() was cancelled
NewHandler ==
    [pc |-> "idle", req |-> NoRequest, w |-> NewResponseWriter,
     out |-> NoOutcome, loc |-> ZeroLocation, weather |-> NoOutcome,
     ctxDone |-> ""]

ConcCeps == { ValidCep, <<"1", "2", "3", "4", "5">> }
ConcInbox ==
    IF target = "A"
    THEN { r \in Requests("/cep") :
               r.body \in { MarshalZipcodeRequest(c) : c \in ConcCeps } }
    ELSE IF target = "B"
    THEN { r \in Requests("/weather") :
               r.body \in { MarshalZipcodeRequest(c) : c \in ConcCeps } }
    ELSE { r \in StandaloneRequests : r.zipcode \in ConcCeps }

ConcResolverAnswers ==
    { TransportFailure("connection refused"),
      Response(404, MarshalErrorResponse("can not find zipcode")),
      Response(200, MarshalWeatherResponse([City |-> "Vitoria", TempC |-> 2550,
                                            TempF |-> 7790, TempK |-> 29865])) }
ConcGeoAnswers ==
    { TransportFailure("connection refused"),
      Response(200, JSONBody([localidade |-> JStr("Vitoria"), uf |-> JStr("ES")])),
      Response(200, JSONBody([erro |-> JBool(TRUE)])) }
ConcWeatherAnswers ==
    { TransportFailure("context deadline exceeded"),
      Response(200, WeatherSample(2550, 7790)),
      Response(200, WeatherSample(2830, 8290)) }

\* s.client.Do(req) with req made by http.NewRequestWithContext(ctx, ...):
\* once ctx is cancelled the call ends with the context's error
DoWithContext(ctxDone, answers) ==
    IF ctxDone THEN { TransportFailure("context canceled") } ELSE answers
ServiceA_clientDo(h) == DoWithContext(h.ctxDone # "", ConcResolverAnswers)
ServiceB_clientDo(h) ==
    DoWithContext(h.ctxDone # "",
                  IF h.pc = "geo" THEN ConcGeoAnswers ELSE ConcWeatherAnswers)
\* client.Get(apiURL): the request is made without the inbound request's
\* context, so nothing but the answer or the client's Timeout ends the call
clientGet(h) == IF h.pc = "geo" THEN ConcGeoAnswers ELSE ConcWeatherAnswers

\* a handler from its call until its first outbound call is sent
handleUntilCall(h, r) ==
    LET c == IF target = "A" THEN ServiceA_checkRequest(r)
             ELSE IF target = "B" THEN ServiceB_checkRequest(r)
             ELSE checkRequest(r)
        refused == IF target = "A"
                   THEN ServiceA_sendErrorResponse(h.w, c.message, c.status)
                   ELSE IF target = "B"
                   THEN ServiceB_sendErrorResponse(h.w, c.message, c.status)
                   ELSE sendErrorResponse(h.w, c.message, c.status)
    IN  IF c.status # 0
        THEN [h EXCEPT !.req = r, !.w = refused, !.pc = "done"]
        ELSE [h EXCEPT !.req = r, !.pc = IF target = "A" THEN "callB" ELSE "geo"]

\* ServiceA.handleCEPRequest from the return of callServiceB on
ServiceA_resume(h, out) ==
    [h EXCEPT !.out = out,
              !.w = ServiceA_respond(h.w, ServiceA_callServiceB(out)),
              !.pc = "done"]

\* ServiceB.handleWeatherRequest from the return of an outbound call on
ServiceB_resume(h, out, c) ==
    IF h.pc = "geo"
    THEN LET location == ServiceB_getLocationFromCEP(out)
             keyErr == ServiceB_checkAPIKey(c)
         IN  IF ~location.err.nil
             THEN [h EXCEPT !.out = out, !.loc = location.val, !.pc = "done",
                            !.w = ServiceB_sendErrorResponse(
                                      h.w, "can not find zipcode", StatusNotFound)]
             ELSE IF ~keyErr.nil
             THEN [h EXCEPT !.out = out, !.loc = location.val, !.pc = "done",
                            !.w = ServiceB_sendErrorResponse(
                                      h.w, "error getting weather information",
                                      StatusInternalServerError)]
             ELSE [h EXCEPT !.out = out, !.loc = location.val, !.pc = "weather"]
    ELSE LET weather == ServiceB_getWeatherFromLocation(out)
         IN  [h EXCEPT !.weather = out, !.pc = "done",
                       !.w = IF ~weather.err.nil
                             THEN ServiceB_sendErrorResponse(
                                      h.w, "error getting weather information",
                                      StatusInternalServerError)
                             ELSE Write(h.w, MarshalWeatherResponse(
                                                 ServiceB_response(h.loc, weather.val)))]

\* handleWeatherRequest of main.go from the return of an outbound call on
resume(h, out, c) ==
    IF h.pc = "geo"
    THEN LET location == getLocationFromCEP(out)
             keyErr == checkAPIKey(c)
         IN  IF ~location.err.nil
             THEN [h EXCEPT !.out = out, !.loc = location.val, !.pc = "done",
                            !.w = sendErrorResponse(h.w, "can not find zipcode",
                                                    StatusNotFound)]
             ELSE IF ~keyErr.nil
             THEN [h EXCEPT !.out = out, !.loc = location.val, !.pc = "done",
                            !.w = respondWeather(h.w, c, location.val.Localidade,
                                                 [err |-> keyErr, val |-> ZeroWeather])]
             ELSE [h EXCEPT !.out = out, !.loc = location.val, !.pc = "weather"]
    ELSE [h EXCEPT !.weather = out, !.pc = "done",
                   !.w = respondWeather(h.w, c, h.loc.Localidade,
                                        getWeatherFromLocation(out))]

InitConc ==
    /\ target \in {"A", "B", "S"}
    /\ conf \in Configs
    /\ Idle
    /\ zipcode = <<>>
    /\ matched = NoVerdict
    /\ env = AnyEnv
    /\ first = NoFirst
    /\ slots = [i \in Workers |-> NewHandler]
    /\ proc = Untracked

\* a request arrives; its handler runs until its first outbound call
handleRequest(i) ==
    /\ slots[i].pc = "idle"
    /\ \E r \in ConcInbox :
           slots' = [slots EXCEPT ![i] = handleUntilCall(slots[i], r)]
    /\ UNCHANGED <<target, conf, varsA, varsB, varsS, calls, zipcode, matched, env, first, proc>>

InFlight(h) == h.pc \in {"callB", "geo", "weather"}

\* the fallback switched off in conf by the handler that resumes
outboundReturnFallbackOnce(i) ==
    /\ InFlight(slots[i])
    /\ \E out \in (IF target = "A" THEN ServiceA_clientDo(slots[i])
                    ELSE IF target = "B" THEN ServiceB_clientDo(slots[i])
                    ELSE clientGet(slots[i])) :
           slots' = [slots EXCEPT ![i] =
                        IF target = "A" THEN ServiceA_resume(slots[i], out)
                        ELSE IF target = "B" THEN ServiceB_resume(slots[i], out, conf)
                        ELSE resume(slots[i], out, conf)]
    /\ conf' = [conf EXCEPT !.DevMode = FALSE]
    /\ UNCHANGED <<target, varsA, varsB, varsS, calls, zipcode, matched, env, first, proc>>

\* the outbound call of a handler returns; the handler runs until its next
\* outbound call or to its end
outboundReturn(i) ==
    /\ InFlight(slots[i])
    /\ \E out \in (IF target = "A" THEN ServiceA_clientDo(slots[i])
                    ELSE IF target = "B" THEN ServiceB_clientDo(slots[i])
                    ELSE clientGet(slots[i])) :
           slots' = [slots EXCEPT ![i] =
                        IF target = "A" THEN ServiceA_resume(slots[i], out)
                        ELSE IF target = "B" THEN ServiceB_resume(slots[i], out, conf)
                        ELSE resume(slots[i], out, conf)]
    /\ UNCHANGED <<target, conf, varsA, varsB, varsS, calls, zipcode, matched, env, first, proc>>

\* the client of a request goes away while an outbound call is in flight:
\* net/http cancels r.Context()
clientDisconnect(i) ==
    /\ InFlight(slots[i])
    /\ slots[i].ctxDone = ""
    /\ slots' = [slots EXCEPT ![i].ctxDone = slots[i].pc]
    /\ UNCHANGED <<target, conf, varsA, varsB, varsS, calls, zipcode, matched, env, first, proc>>

NextConc ==
    \/ \E i \in Workers : handleRequest(i)
    \/ \E i \in Workers : outboundReturn(i)
    \/ \E i \in Workers : clientDisconnect(i)

SpecConc == InitConc /\ [][NextConc]_vars

----------------------------------------------------------------------------
(* The process: main of the Gateway and of the Resolver *)

\* requests one process serves before the model stops following it
MaxServed == 3

\* logger.Fatal: the entry is written and os.Exit(1) ends the process where
\* it stands; functions deferred by main are not run
Fatal(p) == [p EXCEPT !.pc = "exited", !.exit = "os.Exit(1)"]

\* the spans one request ends: none for /health, the handler's, and one
\* more for each outbound step it went through
SpansOfRequest == IF target = "A" THEN 0..2 ELSE 0..3

InitMain ==
    /\ target \in {"A", "B"}
    /\ conf \in Configs
    /\ Idle
    /\ zipcode = <<>>
    /\ matched = NoVerdict
    /\ env = AnyEnv
    /\ first = NoFirst
    /\ slots = <<>>
    /\ proc = NewProcess

\* shared.InitTracer returns the tracer and cleanup, or an error (the Zipkin
\* exporter or the resource cannot be built) and main calls logger.Fatal;
\* on success main defers cleanup and registers the handlers
main_InitTracer ==
    /\ proc.pc = "main"
    /\ \E ok \in BOOLEAN :
           proc' = IF ok
                   THEN [proc EXCEPT !.pc = "listen", !.inits = @ + 1]
                   ELSE Fatal(proc)
    /\ UNCHANGED <<target, conf, varsA, varsB, varsS, calls,
                   zipcode, matched, env, first, slots>>

\* http.ListenAndServe binds the port and serves, or returns the error of
\* net.Listen at once (port in use, not permitted) and main calls
\* logger.Fatal
main_ListenAndServe ==
    /\ proc.pc = "listen"
    /\ \E bound \in BOOLEAN :
           proc' = IF bound
                   THEN [proc EXCEPT !.pc = "serving"]
                   ELSE Fatal(proc)
    /\ UNCHANGED <<target, conf, varsA, varsB, varsS, calls,
                   zipcode, matched, env, first, slots>>

\* a request is served; the spans it ends go to the batch span processor
main_serve ==
    /\ proc.pc = "serving"
    /\ proc.served < MaxServed
    /\ \E n \in SpansOfRequest :
           proc' = [proc EXCEPT !.served = @ + 1, !.buffered = @ + n]
    /\ UNCHANGED <<target, conf, varsA, varsB, varsS, calls,
                   zipcode, matched, env, first, slots>>

\* the batch timeout of the span processor passes: the batch is exported
main_batchExport ==
    /\ proc.pc = "serving"
    /\ proc.buffered > 0
    /\ proc' = [proc EXCEPT !.exported = @ + proc.buffered, !.buffered = 0]
    /\ UNCHANGED <<target, conf, varsA, varsB, varsS, calls,
                   zipcode, matched, env, first, slots>>

\* ListenAndServe returns while serving (Accept fails for good): its error
\* is never nil, and main calls logger.Fatal
main_serveError ==
    /\ proc.pc = "serving"
    /\ proc' = Fatal(proc)
    /\ UNCHANGED <<target, conf, varsA, varsB, varsS, calls,
                   zipcode, matched, env, first, slots>>

\* SIGINT or SIGTERM: main installs no handler, the runtime ends the
\* process
main_signal ==
    /\ proc.pc \in {"listen", "serving"}
    /\ proc' = [proc EXCEPT !.pc = "exited", !.exit = "signal"]
    /\ UNCHANGED <<target, conf, varsA, varsB, varsS, calls,
                   zipcode, matched, env, first, slots>>

NextMain ==
    \/ main_InitTracer
    \/ main_ListenAndServe
    \/ main_serve
    \/ main_batchExport
    \/ main_serveError
    \/ main_signal

SpecMain == InitMain /\ [][NextMain]_vars

----------------------------------------------------------------------------
(* Properties *)

\* a string of exactly eight ASCII decimal digits
IsEightDigits(s) == Len(s) = 8 /\ \A i \in 1..Len(s) : s[i] \in Digits

\* a POST whose body is JSON from which a postal code is decoded
CarriesCep(r) ==
    /\ r.method = "POST"
    /\ r.body.kind = "json"
    /\ "cep" \in DOMAIN r.body.obj => r.body.obj.cep.t = "string"
CepOf(r) == IF "cep" \in DOMAIN r.body.obj THEN r.body.obj.cep.v ELSE <<>>
ValidFormat(r) == CarriesCep(r) /\ IsEightDigits(CepOf(r))

\* a response written once: one status, one error envelope
ErrorEnvelope(status, message) ==
    [code |-> status,
     body |-> <<[kind |-> "json", obj |-> [message |-> [t |-> "string", v |-> message]]]>>,
     headerCalls |-> 1]
IsErrorEnvelope(w, status) ==
    /\ w.code = status
    /\ w.headerCalls = 1
    /\ Len(w.body) = 1
    /\ w.body[1].kind = "json"
    /\ DOMAIN w.body[1].obj = {"message"}

\* a report body: a JSON object with the four fields, each of its type
IsReport(b) ==
    /\ b.kind = "json"
    /\ DOMAIN b.obj = {"city", "temp_C", "temp_F", "temp_K"}
    /\ b.obj.city.t = "string"
    /\ \A k \in {"temp_C", "temp_F", "temp_K"} : b.obj[k].t = "number"

\* a body json.Unmarshal cannot decode into a report
Undecodable(b) ==
    \/ b.kind # "json"
    \/ /\ b.kind = "json"
       /\ \E k \in DOMAIN b.obj \cap {"city", "temp_C", "temp_F", "temp_K"} :
              b.obj[k].t # (IF k = "city" THEN "string" ELSE "number")

\* C1: for a valid-format POST /cep, a Resolver response of status 404 is
\* answered 404 'can not find zipcode' and one of status 422 is answered 422
\* 'invalid zipcode' (a response whose body cannot be read to its end is a
\* transport failure, see C2)
C1_StatusMapping ==
    (pcA = "done" /\ ValidFormat(reqA) /\ inAB.kind = "response") =>
        /\ inAB.status = 404 => wA = ErrorEnvelope(404, "can not find zipcode")
        /\ inAB.status = 422 => wA = ErrorEnvelope(422, "invalid zipcode")

C1_Witness ==
    /\ pcA = "done" /\ ValidFormat(reqA)
    /\ pcB = "done" /\ wB.code = 404
    /\ inAB = WireResponse(wB)
    /\ wA = ErrorEnvelope(404, "can not find zipcode")

\* C2: for a valid-format Gateway request, every Resolver outcome other than
\* a response of status 200, 404 or 422 (another status, a transport failure
\* or timeout, a body that cannot be read or a 200 that cannot be decoded) is
\* answered 500 with a single error envelope
OtherOutcome(out) ==
    \/ out.kind = "error"
    \/ out.kind = "unreadable"
    \/ out.kind = "response" /\ out.status \notin {200, 404, 422}
    \/ out.kind = "response" /\ out.status = 200 /\ Undecodable(out.body)

C2_UpstreamFailure ==
    (pcA = "done" /\ ValidFormat(reqA) /\ OtherOutcome(inAB)) =>
        /\ IsErrorEnvelope(wA, 500)
        /\ wA = ErrorEnvelope(500, "error processing request")

C2_Witness ==
    /\ pcA = "done" /\ ValidFormat(reqA)
    /\ inAB.kind = "response" /\ inAB.status = 503
    /\ inAB.body = MarshalErrorResponse("can not find zipcode")
    /\ IsErrorEnvelope(wA, 500)

\* C3: in the Gateway, the Resolver and the standalone handler, a request
\* from which a postal code is read that is not eight digits is answered 422
\* 'invalid zipcode', and no outbound call is made for it
C3_InvalidZipcode ==
    /\ (pcA # "idle" /\ reqA.path = "/cep" /\ CarriesCep(reqA)
            /\ ~IsEightDigits(CepOf(reqA)))
        => /\ pcA = "done"
           /\ wA = ErrorEnvelope(422, "invalid zipcode")
           /\ calls = NoCalls
    /\ (pcB # "idle" /\ reqB.path = "/weather" /\ CarriesCep(reqB)
            /\ ~IsEightDigits(CepOf(reqB)))
        => /\ pcB = "done"
           /\ wB = ErrorEnvelope(422, "invalid zipcode")
           /\ calls.geoB = 0 /\ calls.weatherB = 0
    /\ (pcS # "idle" /\ reqS.path = "/weather/" /\ ~IsEightDigits(reqS.zipcode))
        => /\ pcS = "done"
           /\ wS = ErrorEnvelope(422, "invalid zipcode")
           /\ calls = NoCalls

C3_Witness ==
    /\ pcA = "done" /\ reqA.path = "/cep" /\ CarriesCep(reqA)
    /\ CepOf(reqA) = ValidCep \o <<"\n">>
    /\ wA.code = 422
    /\ calls = NoCalls

\* C4: each of the three isValidZipcode returns true exactly for the strings
\* of eight characters that are all ASCII decimal digits
C4_Validator ==
    matched.checked =>
        /\ matched.A = IsEightDigits(zipcode)
        /\ matched.B = IsEightDigits(zipcode)
        /\ matched.S = IsEightDigits(zipcode)

C4_Witness ==
    /\ matched.checked
    /\ Len(zipcode) = 9 /\ zipcode[9] = "\n"
    /\ \A i \in 1..8 : zipcode[i] \in Digits
    /\ ~matched.A /\ ~matched.B /\ ~matched.S

\* C5: for a valid-format Resolver request the geocoding lookup succeeds
\* only on status 200 with a body that decodes, the flag false and a city
\* that is not empty; every other outcome is answered 404 'can not find
\* zipcode'
GeoFound(out) ==
    /\ out.kind = "response"
    /\ out.status = 200
    /\ out.body.kind = "json"
    /\ \A k \in DOMAIN out.body.obj \cap {"localidade", "uf"} :
           out.body.obj[k].t = "string"
    /\ "erro" \in DOMAIN out.body.obj =>
           out.body.obj.erro.t = "bool" /\ ~out.body.obj.erro.v
    /\ "localidade" \in DOMAIN out.body.obj
    /\ out.body.obj.localidade.v # ""

C5_GeocodingFailure ==
    (ValidFormat(reqB) /\ reqB.path = "/weather" /\ geoB # NoOutcome) =>
        IF GeoFound(geoB)
        THEN wB.code # 404 /\ locB.Localidade = geoB.body.obj.localidade.v
        ELSE pcB = "done" /\ wB = ErrorEnvelope(404, "can not find zipcode")

C5_Witness ==
    /\ ValidFormat(reqB) /\ pcB = "done"
    /\ geoB.kind = "response" /\ geoB.status = 200
    /\ geoB.body.kind = "json"
    /\ DOMAIN geoB.body.obj = {"erro", "localidade", "uf"}
    /\ geoB.body.obj.erro.v /\ geoB.body.obj.localidade.v = "Vitoria"
    /\ wB = ErrorEnvelope(404, "can not find zipcode")

\* C6: for a valid-format Resolver request whose geocoding succeeded, a
\* weather call that fails in transport, returns another status than 200 or
\* a body that does not decode is answered 500 'error getting weather
\* information'
WeatherUndecodable(b) ==
    \/ b.kind # "json"
    \/ /\ b.kind = "json" /\ "current" \in DOMAIN b.obj
       /\ \/ b.obj.current.t # "object"
          \/ \E k \in DOMAIN b.obj.current.v \cap {"temp_c", "temp_f"} :
                 b.obj.current.v[k].t # "number"

WeatherFailed(out) ==
    \/ out.kind = "error"
    \/ out.kind = "response" /\ out.status # 200
    \/ out.kind = "response" /\ out.status = 200 /\ WeatherUndecodable(out.body)

C6_WeatherFailure ==
    (ValidFormat(reqB) /\ GeoFound(geoB) /\ weatherB # NoOutcome
        /\ WeatherFailed(weatherB)) =>
        /\ pcB = "done"
        /\ wB = ErrorEnvelope(500, "error getting weather information")

C6_Witness ==
    /\ ValidFormat(reqB) /\ GeoFound(geoB) /\ pcB = "done"
    /\ weatherB.kind = "response" /\ weatherB.status = 401
    /\ ~WeatherUndecodable(weatherB.body)
    /\ wB = ErrorEnvelope(500, "error getting weather information")

\* C7: when the Resolver answers 200 with a report, the Gateway answers 200
\* with a report whose city, temp_C, temp_F and temp_K are the Resolver's
C7_PassThrough ==
    (pcA = "done" /\ inAB.kind = "response" /\ inAB.status = 200
        /\ IsReport(inAB.body)) =>
        /\ wA.code = 200
        /\ Len(wA.body) = 1
        /\ IsReport(wA.body[1])
        /\ \A k \in {"city", "temp_C", "temp_F", "temp_K"} :
               wA.body[1].obj[k].v = inAB.body.obj[k].v

C7_Witness ==
    /\ pcA = "done" /\ pcB = "done"
    /\ wB.code = 200 /\ inAB = WireResponse(wB)
    /\ IsReport(inAB.body) /\ inAB.body.obj.temp_F.v = 9999
    /\ wA.code = 200 /\ wA.body = wB.body

\* C8: a successful Resolver report has the city of the geocoding lookup,
\* temp_C and temp_F as the weather API returned them (a field the sample
\* lacks is 0) and temp_K = temp_C + 273.15
SampleOf(b, k) ==
    IF "current" \in DOMAIN b.obj /\ k \in DOMAIN b.obj.current.v
    THEN b.obj.current.v[k].v
    ELSE 0

C8_Report ==
    (pcB = "done" /\ reqB.path = "/weather" /\ wB.code = 200) =>
        /\ Len(wB.body) = 1 /\ IsReport(wB.body[1])
        /\ wB.body[1].obj.city.v = geoB.body.obj.localidade.v
        /\ wB.body[1].obj.temp_C.v = SampleOf(weatherB.body, "temp_c")
        /\ wB.body[1].obj.temp_F.v = SampleOf(weatherB.body, "temp_f")
        /\ wB.body[1].obj.temp_K.v = wB.body[1].obj.temp_C.v + 27315

C8_Witness ==
    /\ pcB = "done" /\ reqB.path = "/weather" /\ wB.code = 200
    /\ geoB.body.obj.localidade.v = "Vitoria"
    /\ weatherB = Response(200, WeatherSample(2550, 7790))
    /\ wB.body[1].obj.temp_C.v = 2550
    /\ wB.body[1].obj.temp_F.v = 7790
    /\ wB.body[1].obj.temp_K.v = 29865

\* C9: in the Resolver and in the standalone handler, with an empty weather
\* API key every request that reaches the weather step (its geocoding lookup
\* succeeded) is answered 500, never 200
C9_MissingKeyFails ==
    /\ (conf.WeatherAPIKey = "" /\ GeoFound(geoB)) =>
           pcB = "done" /\ IsErrorEnvelope(wB, 500)
    /\ (conf.WeatherAPIKey = "" /\ GeoFound(geoS)) =>
           pcS = "done" /\ IsErrorEnvelope(wS, 500)

\* C10: /health of the Gateway, the Resolver and the standalone service is
\* answered 200 with body OK whatever the method and the configuration, and
\* makes no outbound call
HealthOK == [code |-> 200, body |-> <<[kind |-> "text", text |-> "OK"]>>, headerCalls |-> 1]

C10_Health ==
    /\ (pcA = "done" /\ reqA.path = "/health") => wA = HealthOK /\ calls = NoCalls
    /\ (pcB = "done" /\ reqB.path = "/health") => wB = HealthOK /\ calls = NoCalls
    /\ (pcS = "done" /\ reqS.path = "/health") => wS = HealthOK /\ calls = NoCalls

C10_Witness ==
    /\ pcS = "done" /\ reqS.path = "/health" /\ reqS.method = "POST"
    /\ conf.WeatherAPIKey = ""
    /\ wS = HealthOK
    /\ calls = NoCalls

\* a body of the standalone service: the three temperatures
IsStandaloneReport(b) ==
    /\ b.kind = "json"
    /\ DOMAIN b.obj = {"temp_C", "temp_F", "temp_K"}
    /\ \A k \in {"temp_C", "temp_F", "temp_K"} : b.obj[k].t = "number"

\* the weather lookup of the standalone request failed: no key to call
\* with, or a call that failed
LookupFailedS ==
    /\ GeoFound(geoS)
    /\ \/ conf.WeatherAPIKey = ""
       \/ weatherS # NoOutcome /\ WeatherFailed(weatherS)

\* C11: in the standalone service with DevMode false, a request whose
\* weather lookup fails is answered 500 'error getting weather information',
\* and every 200 carries the temperatures of a weather sample that was
\* received, never the mock ones; in either mode a geocoding failure is
\* answered 404 'can not find zipcode'
C11_NoFallback ==
    /\ (~conf.DevMode /\ LookupFailedS) =>
           pcS = "done" /\ wS = ErrorEnvelope(500, "error getting weather information")
    /\ (~conf.DevMode /\ pcS = "done" /\ reqS.path = "/weather/" /\ wS.code = 200) =>
           /\ weatherS # NoOutcome /\ ~WeatherFailed(weatherS)
           /\ Len(wS.body) = 1 /\ IsStandaloneReport(wS.body[1])
           /\ wS.body[1].obj.temp_C.v = SampleOf(weatherS.body, "temp_c")
           /\ wS.body[1].obj.temp_F.v = SampleOf(weatherS.body, "temp_f")
    /\ (geoS # NoOutcome /\ ~GeoFound(geoS)) =>
           pcS = "done" /\ wS = ErrorEnvelope(404, "can not find zipcode")

C11_Witness ==
    /\ ~conf.DevMode /\ pcS = "done"
    /\ GeoFound(geoS)
    /\ weatherS = TransportFailure("context deadline exceeded")
    /\ wS = ErrorEnvelope(500, "error getting weather information")

\* the (status, message) pairs of the error table
RequestErrors ==
    { <<405, "method not allowed">>, <<400, "invalid request body">>,
      <<400, "invalid json format">>, <<422, "invalid zipcode">>,
      <<404, "can not find zipcode">> }
GatewayErrors == RequestErrors \cup { <<500, "error processing request">> }
ResolverErrors == RequestErrors \cup { <<500, "error getting weather information">> }

\* C13: every response of the Gateway and of the Resolver whose status is
\* not 200 is one {message} envelope with a (status, message) pair of the
\* error table (500 with 'error processing request' in the Gateway and
\* 'error getting weather information' in the Resolver); a request whose
\* method is not POST is answered 405 'method not allowed', and a POST whose
\* body is not JSON is answered 400 'invalid json format'
C13_ErrorTable ==
    /\ (pcA = "done" /\ wA.code # 200) =>
           \E p \in GatewayErrors : wA = ErrorEnvelope(p[1], p[2])
    /\ (pcB = "done" /\ wB.code # 200) =>
           \E p \in ResolverErrors : wB = ErrorEnvelope(p[1], p[2])
    /\ (pcA # "idle" /\ reqA.path = "/cep" /\ reqA.method # "POST") =>
           pcA = "done" /\ wA = ErrorEnvelope(405, "method not allowed")
    /\ (pcB # "idle" /\ reqB.path = "/weather" /\ reqB.method # "POST") =>
           pcB = "done" /\ wB = ErrorEnvelope(405, "method not allowed")
    /\ (pcA # "idle" /\ reqA.path = "/cep" /\ reqA.method = "POST"
            /\ reqA.body.kind = "text") =>
           pcA = "done" /\ wA = ErrorEnvelope(400, "invalid json format")
    /\ (pcB # "idle" /\ reqB.path = "/weather" /\ reqB.method = "POST"
            /\ reqB.body.kind = "text") =>
           pcB = "done" /\ wB = ErrorEnvelope(400, "invalid json format")

C13_Witness ==
    /\ pcA = "done" /\ reqA.path = "/cep" /\ reqA.method = "POST"
    /\ reqA.body.kind = "text"
    /\ wA = ErrorEnvelope(400, "invalid json format")
    /\ calls = NoCalls

\* one response and no more: a 200 with one complete body, or one error
\* envelope holding the message alone
OneResponse(w, complete) ==
    \/ /\ w.code = 200
       /\ w.headerCalls <= 1
       /\ Len(w.body) = 1
       /\ complete
    \/ /\ w.code # 200
       /\ IsErrorEnvelope(w, w.code)
       /\ w.body[1].obj.message.t = "string"

\* C15: a handler that has returned has written exactly one response, a 200
\* with a complete report or one error envelope without any report field,
\* its status written once; until it returns it has written nothing
C15_OneResponse ==
    /\ pcA = "done" => OneResponse(wA, IF reqA.path = "/health" THEN wA = HealthOK
                                       ELSE IsReport(wA.body[1]))
    /\ pcB = "done" => OneResponse(wB, IF reqB.path = "/health" THEN wB = HealthOK
                                       ELSE IsReport(wB.body[1]))
    /\ pcS = "done" => OneResponse(wS, IF reqS.path = "/health" THEN wS = HealthOK
                                       ELSE IsStandaloneReport(wS.body[1]))
    /\ pcA # "done" => wA = NewResponseWriter
    /\ pcB # "done" => wB = NewResponseWriter
    /\ pcS # "done" => wS = NewResponseWriter

C15_Witness ==
    /\ pcS = "done" /\ GeoFound(geoS) /\ locS.Localidade = "Vitoria"
    /\ weatherS.kind = "response" /\ weatherS.status = 500
    /\ wS.code = 500 /\ wS.headerCalls = 1 /\ Len(wS.body) = 1
    /\ DOMAIN wS.body[1].obj = {"message"}

\* C16: in the standalone service with DevMode on, a request whose
\* geocoding lookup succeeded and whose weather call failed is answered 200
\* with temp_C = 25.0, temp_F = 77.0 and temp_K = 298.15
C16_MockSample ==
    (conf.DevMode /\ GeoFound(geoS) /\ weatherS # NoOutcome
        /\ WeatherFailed(weatherS)) =>
        /\ pcS = "done"
        /\ wS.code = 200
        /\ Len(wS.body) = 1 /\ IsStandaloneReport(wS.body[1])
        /\ wS.body[1].obj.temp_C.v = 2500
        /\ wS.body[1].obj.temp_F.v = 7700
        /\ wS.body[1].obj.temp_K.v = 29815

C16_Witness ==
    /\ conf.DevMode /\ conf.WeatherAPIKey # ""
    /\ pcS = "done" /\ GeoFound(geoS)
    /\ weatherS.kind = "response" /\ weatherS.status = 401
    /\ wS.code = 200
    /\ wS.body = <<MarshalStandaloneResponse([TempC |-> 2500, TempF |-> 7700,
                                               TempK |-> 29815])>>

\* |a - b| <= t
Within(a, b, t) == a - b <= t /\ b - a <= t

\* C17: every 200 of the standalone handleWeatherRequest has
\* temp_F = temp_C * 1.8 + 32 and temp_K = temp_C + 273.15, each within 0.01
\* (in hundredths of a degree: 5 * temp_F against 9 * temp_C + 16000)
C17_Conversion ==
    (pcS = "done" /\ reqS.path = "/weather/" /\ wS.code = 200) =>
        /\ Within(5 * wS.body[1].obj.temp_F.v,
                  9 * wS.body[1].obj.temp_C.v + 16000, 5)
        /\ Within(wS.body[1].obj.temp_K.v,
                  wS.body[1].obj.temp_C.v + 27315, 1)

\* C20: while one request is handled the Gateway calls the Resolver at most
\* once, and the Resolver and the standalone handler make at most one
\* geocoding call and at most one weather call; a call that has returned,
\* failed or not, is not made again
C20_NoRetry ==
    /\ calls.resolver <= 1
    /\ calls.geoB <= 1 /\ calls.weatherB <= 1
    /\ calls.geoS <= 1 /\ calls.weatherS <= 1
    /\ inAB # NoOutcome => pcA = "done"
    /\ geoB # NoOutcome => pcB # "geo"
    /\ (geoB # NoOutcome /\ ~GeoFound(geoB)) => pcB = "done" /\ calls.weatherB = 0
    /\ weatherB # NoOutcome => pcB = "done"
    /\ geoS # NoOutcome => pcS # "geo"
    /\ (geoS # NoOutcome /\ ~GeoFound(geoS)) => pcS = "done" /\ calls.weatherS = 0
    /\ weatherS # NoOutcome => pcS = "done"

C20_Witness ==
    /\ pcA = "done" /\ pcB = "done"
    /\ inAB = WireResponse(wB) /\ wA.code = 404
    /\ geoB = TransportFailure("connection refused")
    /\ calls.resolver = 1 /\ calls.geoB = 1 /\ calls.weatherB = 0

\* C12: with DevMode off, for one postal code and one pair of geocoding and
\* weather outcomes, the chained deployment (the Gateway's call reaching the
\* Resolver and bringing its response back) and the standalone service
\* answer with the same status and, on 200, the same temp_C, temp_F and
\* temp_K
C12_SameAsStandalone ==
    (first.n = 1 /\ ~conf.DevMode /\ Answered
        /\ {first.target, target} = {"A", "S"}) =>
        /\ Answer.code = first.w.code
        /\ Answer.code = 200 =>
               \A k \in {"temp_C", "temp_F", "temp_K"} :
                   /\ Answer.body[1].obj[k].t = "number"
                   /\ Answer.body[1].obj[k] = first.w.body[1].obj[k]

C12_Witness ==
    /\ first.n = 1 /\ first.target = "A" /\ target = "S" /\ pcS = "done"
    /\ ~conf.DevMode
    /\ env.cep = ValidCep
    /\ env.weather = Response(200, WeatherSample(2830, 8290))
    /\ first.w.code = 200 /\ wS.code = 200
    /\ first.w.body[1].obj.temp_C.v = 2830
    /\ wS.body[1].obj.temp_K.v = 30145

\* C14: a postal code resolved twice by one deployment, the upstreams
\* answering the same both times, gets the same response twice: the same
\* status and the same body
C14_Idempotent ==
    (first.n = 1 /\ first.target = target /\ Answered) => Answer = first.w

C14_Witness ==
    /\ first.n = 1 /\ first.target = "S" /\ target = "S" /\ pcS = "done"
    /\ env.cep = ValidCep
    /\ conf.DevMode /\ WeatherFailed(env.weather)
    /\ first.w.code = 200 /\ wS = first.w
    /\ wS.body[1].obj.temp_C.v = 2500

\* the call that was in flight when the context was cancelled ended with
\* the context's error, and no other call followed it
Aborted(h) ==
    /\ (h.ctxDone \in {"callB", "geo"} /\ h.out # NoOutcome) =>
           h.out = TransportFailure("context canceled")
    /\ h.ctxDone = "geo" => h.pc # "weather" /\ h.weather = NoOutcome
    /\ (h.ctxDone = "weather" /\ h.weather # NoOutcome) =>
           h.weather = TransportFailure("context canceled")

\* C18: when the client of a request goes away while an outbound call of
\* that request is in flight, the call is aborted, in the Gateway, the
\* Resolver and the standalone handler; no call of a request whose client
\* stays is aborted
C18_Cancellation ==
    \A i \in Workers :
        /\ Aborted(slots[i])
        /\ slots[i].ctxDone = "" =>
               /\ slots[i].out # TransportFailure("context canceled")
               /\ slots[i].weather # TransportFailure("context canceled")

\* two requests with the same input and the same answers to their calls
SameInputs(g, h) ==
    /\ g.req = h.req
    /\ g.out = h.out
    /\ g.weather = h.weather

\* C19: however the requests in flight interleave, two requests with the
\* same input and the same answers to their own calls get the same
\* response, and no step of a handler changes the configuration
C19_Independent ==
    /\ [](\A i, j \in Workers :
             (slots[i].pc = "done" /\ slots[j].pc = "done"
                 /\ SameInputs(slots[i], slots[j])) =>
                 slots[i].w = slots[j].w)
    /\ [][conf' = conf]_vars

C19_Witness ==
    /\ target = "S" /\ conf.DevMode
    /\ slots[1].pc = "done" /\ slots[2].pc = "done"
    /\ slots[1].ctxDone = "" /\ slots[2].ctxDone = "weather"
    /\ SameInputs(slots[1], slots[2])
    /\ slots[1].weather = TransportFailure("context deadline exceeded")
    /\ slots[1].w.code = 200 /\ slots[2].w = slots[1].w

\* C21: within one request of the Resolver or of the standalone handler,
\* the weather call is issued only once the geocoding call has returned a
\* location with a city, the two calls are never in flight together, and
\* no weather call follows a geocoding failure
C21_CallOrder ==
    /\ calls.weatherB >= 1 => GeoFound(geoB)
    /\ calls.weatherS >= 1 => GeoFound(geoS)
    /\ ~(calls.geoB >= 1 /\ geoB = NoOutcome /\ calls.weatherB >= 1)
    /\ ~(calls.geoS >= 1 /\ geoS = NoOutcome /\ calls.weatherS >= 1)
    /\ (geoB # NoOutcome /\ ~GeoFound(geoB)) => calls.weatherB = 0 /\ pcB = "done"
    /\ (geoS # NoOutcome /\ ~GeoFound(geoS)) => calls.weatherS = 0 /\ pcS = "done"
    /\ pcB = "weather" => calls.geoB = 1 /\ locB.Localidade # ""
    /\ pcS = "weather" => calls.geoS = 1 /\ locS.Localidade # ""

C21_Witness ==
    /\ pcB = "weather" /\ calls.geoB = 1 /\ calls.weatherB = 1
    /\ GeoFound(geoB) /\ locB.Localidade = "Sao Paulo"
    /\ weatherB = NoOutcome

\* C27: in the Resolver with an empty API key, a valid-format request makes
\* exactly one geocoding call and no weather call, and is answered 404 when
\* the geocoding fails and 500 when it succeeds
C27_KeyAfterGeocoding ==
    (conf.WeatherAPIKey = "" /\ pcB # "idle" /\ reqB.path = "/weather"
        /\ ValidFormat(reqB)) =>
        /\ calls.geoB = 1 /\ calls.weatherB = 0
        /\ pcB \in {"geo", "done"}
        /\ pcB = "done" =>
               /\ geoB # NoOutcome
               /\ IF GeoFound(geoB)
                  THEN wB = ErrorEnvelope(500, "error getting weather information")
                  ELSE wB = ErrorEnvelope(404, "can not find zipcode")

C27_Witness ==
    /\ conf.WeatherAPIKey = "" /\ pcB = "done" /\ ValidFormat(reqB)
    /\ geoB = TransportFailure("connection refused")
    /\ calls.geoB = 1 /\ calls.weatherB = 0
    /\ wB = ErrorEnvelope(404, "can not find zipcode")

\* C25: for a valid-format POST /cep the Gateway answers 404 exactly when
\* the call to the Resolver returned a response of status 404, and 422
\* exactly when it returned one of status 422; a response of another status
\* whatever its body, a transport error (a body that cannot be read to its
\* end included) and a 200 that does not decode are answered otherwise
C25_ExactMapping ==
    (pcA = "done" /\ reqA.path = "/cep" /\ ValidFormat(reqA)) =>
        /\ wA.code = 404 <=> (inAB.kind = "response" /\ inAB.status = 404)
        /\ wA.code = 422 <=> (inAB.kind = "response" /\ inAB.status = 422)

C25_Witness ==
    /\ pcA = "done" /\ reqA.path = "/cep" /\ ValidFormat(reqA)
    /\ inAB = Response(500, TextBody("can not find zipcode"))
    /\ wA = ErrorEnvelope(500, "error processing request")

\* the call of the Gateway was answered by something else than the Resolver
ForeignAnswer == pcB = "idle" /\ inAB.kind \in {"response", "unreadable"}

\* C26: in the chained deployment every request that reaches the Resolver
\* is the Gateway's POST with a JSON body whose cep is eight digits, the
\* Resolver never answers it 422, 400 or 405, and a 422 of the Gateway comes
\* from its own validation, without any call to the Resolver
C26_ForwardedValid ==
    /\ (target = "A" /\ pcB # "idle") =>
           /\ reqB = outAB
           /\ reqB.method = "POST" /\ reqB.path = "/weather"
           /\ ValidFormat(reqB)
           /\ CepOf(reqB) = CepOf(reqA)
    /\ (target = "A" /\ pcB = "done") => wB.code \notin {422, 400, 405}
    /\ (target = "A" /\ pcA = "done" /\ reqA.path = "/cep" /\ wA.code = 422
            /\ ~ForeignAnswer) =>
           /\ calls.resolver = 0 /\ inAB = NoOutcome
           /\ pcB = "idle"

C26_Witness ==
    /\ target = "A" /\ pcA = "done" /\ pcB = "done"
    /\ reqB = ServiceA_request(ValidCep)
    /\ wB.code = 404 /\ inAB = WireResponse(wB)
    /\ wA.code = 404 /\ calls.resolver = 1

\* the checks of a request, in the order of the code, and no outbound call
\* whichever fails
ChecksInOrder(pc, r, w, ncalls) ==
    /\ r.method # "POST" =>
           pc = "done" /\ w = ErrorEnvelope(405, "method not allowed") /\ ncalls = 0
    /\ (r.method = "POST" /\ r.body.kind = "unreadable") =>
           pc = "done" /\ w = ErrorEnvelope(400, "invalid request body") /\ ncalls = 0
    /\ (r.method = "POST" /\ r.body.kind = "text") =>
           pc = "done" /\ w = ErrorEnvelope(400, "invalid json format") /\ ncalls = 0
    /\ (r.method = "POST" /\ r.body.kind = "json"
            /\ \/ "cep" \notin DOMAIN r.body.obj
               \/ r.body.obj.cep = JStr(<<>>)) =>
           pc = "done" /\ w = ErrorEnvelope(422, "invalid zipcode") /\ ncalls = 0

\* C28: the Gateway and the Resolver check a request in the order method,
\* body read, JSON parse, postal code, and answer with the first check that
\* fails: 405 for another method than POST whatever the body, 400 for a
\* POST whose body is not JSON, 422 'invalid zipcode' for a POST whose JSON
\* has no cep or an empty one; none of them makes an outbound call
C28_CheckOrder ==
    /\ (pcA # "idle" /\ reqA.path = "/cep") =>
           ChecksInOrder(pcA, reqA, wA, calls.resolver)
    /\ (pcB # "idle" /\ reqB.path = "/weather") =>
           ChecksInOrder(pcB, reqB, wB, calls.geoB + calls.weatherB)

C28_Witness ==
    /\ pcA = "done" /\ reqA.path = "/cep" /\ reqA.method = "GET"
    /\ reqA.body.kind = "text"
    /\ wA = ErrorEnvelope(405, "method not allowed")
    /\ calls = NoCalls

\* every failure response of the trace is preceded by a log call at WARN or
\* ERROR, the levels the handlers record a failure at
LoggedBeforeWritten(obs) ==
    \A i \in DOMAIN obs :
        (obs[i].k = "write" /\ obs[i].code # StatusOK) =>
            \E j \in 1..(i - 1) :
                obs[j].k = "log" /\ obs[j].level \in {"WARN", "ERROR"}

\* C22: in the Gateway and the Resolver every failure response (405, 400,
\* 422, 404, 500) is preceded, within the same request, by a log call that
\* records the failure
C22_LoggedBeforeWritten ==
    /\ LoggedBeforeWritten(obsA)
    /\ LoggedBeforeWritten(obsB)

\* the outbound call to callee is traced: a span of the step is open and has
\* its 'calling' event when the call is made, and the call's return is
\* followed at once by the 'response received' event with the duration
StepTraced(obs, callee, span, calling, received) ==
    /\ \A i \in DOMAIN obs :
           obs[i] = Call(callee) =>
               \E s \in 1..(i - 1) :
                   /\ obs[s] = Start(span)
                   /\ \A e \in (s + 1)..(i - 1) : obs[e] # End(span)
                   /\ \E e \in (s + 1)..(i - 1) :
                          /\ obs[e].k = "event"
                          /\ obs[e].span = span
                          /\ obs[e].name = calling
    /\ \A i \in DOMAIN obs :
           obs[i] = Return(callee) =>
               /\ i < Len(obs)
               /\ obs[i + 1].k = "event"
               /\ obs[i + 1].span = span
               /\ obs[i + 1].name = received
               /\ "duration" \in obs[i + 1].attrs
               /\ \A e \in 1..i : obs[e] # End(span)

\* C23: for each outbound call (Gateway to the Resolver, Resolver to the
\* geocoding service, Resolver to the weather service) a span of the step is
\* started and a 'calling' event added before the call, and a 'response
\* received' event carrying the duration is added after it, whether the
\* call succeeds, fails in transport or returns another status than 200
C23_StepsTraced ==
    /\ StepTraced(obsA, "service-b", "service-a.callServiceB",
                  "Calling Service B", "Service B response received")
    /\ StepTraced(obsB, "viacep", "service-b.getLocationFromCEP",
                  "Calling ViaCEP API", "ViaCEP response received")
    /\ StepTraced(obsB, "weatherapi", "service-b.getWeatherFromLocation",
                  "Calling WeatherAPI", "WeatherAPI response received")

\* the geocoding call failed in transport and both events are in the trace
C23_Witness ==
    /\ pcB = "done" /\ geoB.kind = "error"
    /\ wB = ErrorEnvelope(404, "can not find zipcode")
    /\ \E i \in DOMAIN obsB : obsB[i] = Call("viacep")
    /\ \E i \in DOMAIN obsB :
           /\ obsB[i] = Return("viacep")
           /\ obsB[i + 1] = AddEvent("service-b.getLocationFromCEP",
                                     "ViaCEP response received", {"duration"})

\* C24: in the Gateway's and the Resolver's process the tracer is
\* initialized exactly once before serving starts, a failed initialization
\* ends the process before any request is served, and on every way the
\* process ends, the server failing to listen included, the tracer's
\* cleanup has run exactly once and no span is left in the buffer
C24_TracerLifecycle ==
    /\ proc.inits <= 1
    /\ proc.pc = "serving" => proc.inits = 1
    /\ proc.served > 0 => proc.inits = 1
    /\ (proc.pc = "exited" /\ proc.inits = 1) =>
           proc.cleanups = 1 /\ proc.buffered = 0
    /\ (proc.pc = "exited" /\ proc.inits = 0) =>
           proc.cleanups = 0 /\ proc.served = 0

====
